---- MODULE Spec2Model ----
(***************************************************************************)
(* Model of the authentication gateway (api-gateway) and of the credential *)
(* store it verifies against (user-service: sessions, API keys, users).    *)
(*                                                                         *)
(* Text is modelled as a sequence of segments: "Bearer abc" is             *)
(* <<"Bearer ", "abc">>, the API key "sk_k1" is <<"sk_", "k1">>, the path  *)
(* "/api/v1/users/1" is <<"/api/v1", "/users", "/1">>, and "" is << >>.    *)
(* HasPrefix/TrimPrefix work on these sequences as Go's strings functions  *)
(* work on bytes.  Time is a natural-number clock; 0 is Go's zero time.    *)
(***************************************************************************)
EXTENDS Integers, Sequences, FiniteSets, TLC

VARIABLES
    now,       \* the clock
    users,     \* table users
    sessions,  \* table sessions
    apiKeys,   \* table api_keys
    seq,       \* the id sequences of users and api_keys, and the random draws made
    last,      \* the exchange just served: the request and all that was observed
    hist,      \* history: the tokens logged out and the keys revoked so far
    roles,         \* user service: table roles
    userRoles,     \* user service: table user_roles
    aiCallLogs,    \* analytics service: table ai_call_logs
    aiStatistics,  \* analytics service: table ai_statistics
    aggregations,  \* analytics service: the AggregateAICallsToStats goroutines running
    validations    \* user service: the ValidateAPIKey calls between their two statements

\* the user service's role tables, and the analytics service
roleTables == <<roles, userRoles>>
analytics == <<aiCallLogs, aiStatistics, aggregations>>

vars == <<now, users, sessions, apiKeys, seq, last, hist, roleTables, analytics, validations>>

----------------------------------------------------------------------------
(* Bounds of the model *)

MaxTime == 3
MaxUsers == 2
MaxSessions == 2
MaxKeys == 1
\* the key ids handed out before the store's operations are applied to its tables
MaxRows == 2
\* the roles there are, and the most role ids one assignment names
MaxRoles == 2
\* the ValidateAPIKey calls that are between their statements at one time
MaxRacers == 2
\* the AI calls logged at the analytics service, and the calendar days they fall on
MaxCalls == 3
MaxDays == 2
\* the response body sizes tried lie within this many bytes of the cap
SizeSpread == 25

\* the id of the first account of the model: the users id sequence stands just
\* below a million, where fmt's %v of a float64 changes notation
FirstUserID == 10^6 - 1

(* Program constants, in clock units *)

\* Login: expiresAt := time.Now().Add(24 * time.Hour); one clock unit is 24h
SessionTTL == 1
\* CreateAPIKey: time.Now().AddDate(1, 0, 0), a year: beyond the clock's range
DefaultKeyTTL == MaxTime + 1

----------------------------------------------------------------------------
(* Text *)

EmptyStr == << >>

HasPrefix(s, p) == Len(s) >= Len(p) /\ SubSeq(s, 1, Len(p)) = p

TrimPrefix(s, p) == IF HasPrefix(s, p) THEN SubSeq(s, Len(p) + 1, Len(s)) ELSE s

Bearer == <<"Bearer ">>

\* generateToken: hex of 16 random bytes; the n-th token drawn is fresh
TokenNames == <<"t1", "t2", "t3", "t4">>
generateToken(n) == <<TokenNames[n]>>

\* generateAPIKey: "sk_" followed by the URL-safe base64 of 32 random bytes
KeyNames == <<"k1", "k2", "k3">>
generateAPIKey(n) == <<"sk_", KeyNames[n]>>

\* bcrypt.GenerateFromPassword / CompareHashAndPassword
HashPassword(pw) == <<"bcrypt">> \o pw
CompareHashAndPassword(hash, pw) == hash = HashPassword(pw)

----------------------------------------------------------------------------
(* The user service's database: users, sessions, api_keys *)

\* deletes tells whether the database carries out the lazy delete of an expired
\* session row (GetSessionByToken ignores the outcome of that delete)
DB == [users |-> users, sessions |-> sessions, apiKeys |-> apiKeys, seq |-> seq,
       deletes |-> TRUE]

Ok(db, val) == [db |-> db, err |-> "", val |-> val]
Err(db, e) == [db |-> db, err |-> e, val |-> 0]

ErrUserNotFound == "user not found"
ErrUsernameExists == "username already exists"
ErrEmailExists == "email already exists"
ErrInvalidCredentials == "invalid credentials"

UserByID(db, id) == CHOOSE u \in db.users : u.id = id

\* UserRepository.Create
Create(db, nu) ==
    IF \E u \in db.users : u.username = nu.username THEN Err(db, ErrUsernameExists)
    ELSE IF \E u \in db.users : u.email = nu.email THEN Err(db, ErrEmailExists)
    ELSE LET id == db.seq.user + 1
             newUser == [id |-> id, username |-> nu.username, email |-> nu.email,
                         passwordHash |-> HashPassword(nu.password), isActive |-> TRUE]
         IN Ok([db EXCEPT !.users = @ \cup {newUser}, !.seq.user = id], newUser)

\* UserRepository.GetByID
GetByID(db, id) ==
    IF \E u \in db.users : u.id = id THEN Ok(db, UserByID(db, id))
    ELSE Err(db, ErrUserNotFound)

\* UserRepository.GetByUsername
GetByUsername(db, username) ==
    IF \E u \in db.users : u.username = username
    THEN Ok(db, CHOOSE u \in db.users : u.username = username)
    ELSE Err(db, ErrUserNotFound)

\* UserRepository.Update, for an update that carries only is_active
\* (update.isActive is "nil", "true" or "false")
Update(db, id, update) ==
    IF ~ \E u \in db.users : u.id = id THEN Err(db, ErrUserNotFound)
    ELSE LET old == UserByID(db, id)
             new == IF update.isActive = "nil" THEN old
                    ELSE [old EXCEPT !.isActive = (update.isActive = "true")]
         IN Ok([db EXCEPT !.users = (@ \ {old}) \cup {new}], new)

\* rows of sessions and api_keys that reference the user (foreignKey:UserID)
References(db, id) ==
    (\E s \in db.sessions : s.userID = id) \/ (\E k \in db.apiKeys : k.userID = id)

\* UserRepository.Delete: the delete fails while a row references the user
Delete(db, id) ==
    IF ~ \E u \in db.users : u.id = id THEN Err(db, ErrUserNotFound)
    ELSE IF References(db, id) THEN Err(db, "error deleting user")
    ELSE Ok([db EXCEPT !.users = @ \ {UserByID(db, id)}], 0)

\* UserRepository.Authenticate
Authenticate(db, username, password) ==
    LET got == GetByUsername(db, username)
    IN IF got.err # "" THEN Err(db, ErrInvalidCredentials)
       ELSE IF ~ got.val.isActive THEN Err(db, ErrInvalidCredentials)
       ELSE IF ~ CompareHashAndPassword(got.val.passwordHash, password)
            THEN Err(db, ErrInvalidCredentials)
       ELSE Ok(db, got.val)

\* UserRepository.CreateSession (sessions.token has a unique index)
CreateSession(db, userID, token, expiresAt) ==
    IF \E s \in db.sessions : s.token = token THEN Err(db, "error creating session")
    ELSE LET session == [userID |-> userID, token |-> token, expiresAt |-> expiresAt]
         IN Ok([db EXCEPT !.sessions = @ \cup {session}], session)

\* time.Time.Before
Before(t, u) == t < u

\* a GetSessionByToken that renews the expired session it rejects instead of
\* deleting it: the fault RejectedExpiredStaysRejected detects
GetSessionByTokenRenewing(db, token, t) ==
    IF ~ \E s \in db.sessions : s.token = token THEN Err(db, ErrUserNotFound)
    ELSE LET session == CHOOSE s \in db.sessions : s.token = token
         IN IF Before(session.expiresAt, t)
            THEN Err([db EXCEPT !.sessions =
                         (@ \ {session}) \cup {[session EXCEPT !.expiresAt = t]}],
                     ErrUserNotFound)
            ELSE IF ~ \E u \in db.users : u.id = session.userID
                 THEN Err(db, ErrUserNotFound)
            ELSE Ok(db, <<session, UserByID(db, session.userID)>>)

\* UserRepository.GetSessionByToken at time t; val is <<session, user>>.  The
\* outcome of the delete of an expired row is not looked at: the lookup fails
\* with ErrUserNotFound whether the row went away or not
GetSessionByToken(db, token, t) ==
    IF ~ \E s \in db.sessions : s.token = token THEN Err(db, ErrUserNotFound)
    ELSE LET session == CHOOSE s \in db.sessions : s.token = token
         IN IF Before(session.expiresAt, t)
            THEN Err(IF db.deletes THEN [db EXCEPT !.sessions = @ \ {session}] ELSE db,
                     ErrUserNotFound)
            ELSE IF ~ \E u \in db.users : u.id = session.userID
                 THEN Err(db, ErrUserNotFound)
            ELSE Ok(db, <<session, UserByID(db, session.userID)>>)

\* a DeleteSession that deletes every session of the user the token belongs
\* to: the fault LogoutRemovesOnlyItsSession detects
DeleteSessionsOfUser(db, token) ==
    LET owners == {s.userID : s \in {x \in db.sessions : x.token = token}}
    IN Ok([db EXCEPT !.sessions = {s \in @ : s.userID \notin owners}], 0)

\* UserRepository.DeleteSession: DELETE FROM sessions WHERE token = ?
DeleteSession(db, token) ==
    Ok([db EXCEPT !.sessions = {s \in @ : s.token # token}], 0)

----------------------------------------------------------------------------
(* APIKeyRepository *)

\* APIKeyRepository.CreateAPIKey at time t (expiresAt = 0 is the zero time)
RepoCreateAPIKey(db, userID, name, expiresAt, t) ==
    LET exp == IF expiresAt = 0 THEN t + DefaultKeyTTL ELSE expiresAt
        id == db.seq.key + 1
        apiKey == [id |-> id, userID |-> userID, key |-> generateAPIKey(id),
                   name |-> name, expiresAt |-> exp, isActive |-> TRUE, lastUsed |-> 0]
    IN IF (\E k \in db.apiKeys : k.key = apiKey.key)
          \/ ~ (\E u \in db.users : u.id = userID)
       THEN Err(db, "error saving API key")
       ELSE Ok([db EXCEPT !.apiKeys = @ \cup {apiKey}, !.seq.key = id], apiKey)

\* an APIKeyRepository.RevokeAPIKey that selects the row by id alone, without
\* user_id = ?: the fault NonOwnerLeavesKeysUnchanged detects
RepoRevokeAPIKeyAnyOwner(db, keyID, userID) ==
    LET rows == {k \in db.apiKeys : k.id = keyID}
    IN IF rows = {} THEN Err(db, "API key not found or already revoked")
       ELSE Ok([db EXCEPT !.apiKeys =
                   {IF k \in rows THEN [k EXCEPT !.isActive = FALSE] ELSE k : k \in @}], 0)

\* APIKeyRepository.RevokeAPIKey
RepoRevokeAPIKey(db, keyID, userID) ==
    LET rows == {k \in db.apiKeys : k.id = keyID /\ k.userID = userID}
    IN IF rows = {} THEN Err(db, "API key not found or already revoked")
       ELSE Ok([db EXCEPT !.apiKeys =
                   {IF k \in rows THEN [k EXCEPT !.isActive = FALSE] ELSE k : k \in @}], 0)

\* an APIKeyRepository.ValidateAPIKey whose expiry comparison includes the instant
\* of expiry (expires_at >= now): the fault ValidateKeyIffActiveUnexpired detects
RepoValidateAPIKeyInclusive(db, keyString, t) ==
    LET rows == {k \in db.apiKeys : k.key = keyString /\ k.isActive /\ k.expiresAt >= t}
    IN IF rows = {} THEN Err(db, "invalid or expired API key")
       ELSE LET apiKey == CHOOSE k \in rows : TRUE
            IN Ok([db EXCEPT !.apiKeys =
                      {IF k.id = apiKey.id THEN [k EXCEPT !.lastUsed = t] ELSE k : k \in @}],
                  apiKey.userID)

\* APIKeyRepository.ValidateAPIKey at time t; val is the key's user id
RepoValidateAPIKey(db, keyString, t) ==
    LET rows == {k \in db.apiKeys : k.key = keyString /\ k.isActive /\ k.expiresAt > t}
    IN IF rows = {} THEN Err(db, "invalid or expired API key")
       ELSE LET apiKey == CHOOSE k \in rows : TRUE
            IN Ok([db EXCEPT !.apiKeys =
                      {IF k.id = apiKey.id THEN [k EXCEPT !.lastUsed = t] ELSE k : k \in @}],
                  apiKey.userID)

\* APIKeyRepository.DeleteAPIKey
RepoDeleteAPIKey(db, keyID, userID) ==
    LET rows == {k \in db.apiKeys : k.id = keyID /\ k.userID = userID}
    IN IF rows = {} THEN Err(db, "API key not found")
       ELSE Ok([db EXCEPT !.apiKeys = @ \ rows], 0)

----------------------------------------------------------------------------
(* HTTP: a response is [status, body]; a handler yields [db, status, body] *)

Reply(db, status, body) == [db |-> db, status |-> status, body |-> body]

NoHeader == EmptyStr

\* json.NewDecoder(r.Body).Decode succeeds on a JSON body only
Decodes(body) == body.kind = "json"

\* the integers whose decimal text occurs in a request
Numerals == 0..9 \cup ((FirstUserID - 1)..(FirstUserID + 9))

\* strconv.Itoa
Itoa(n) == <<ToString(n)>>

\* strconv.Atoi on a path variable: a decimal text parses, anything else fails
Atoi(s) ==
    IF \E n \in Numerals : Itoa(n) = s
    THEN [ok |-> TRUE, val |-> CHOOSE n \in Numerals : Itoa(n) = s]
    ELSE [ok |-> FALSE, val |-> 0]

\* token extraction shared by Logout, VerifyToken and AuthMiddleware:
\* len(authHeader) > 7 && authHeader[:7] == "Bearer " ? authHeader[7:] : authHeader
ExtractToken(authHeader) ==
    IF Len(authHeader) > Len(Bearer) /\ HasPrefix(authHeader, Bearer)
    THEN SubSeq(authHeader, Len(Bearer) + 1, Len(authHeader))
    ELSE authHeader

\* UserHandler.CreateUser; body is undecodable or a NewUser record
HandleCreateUser(db, body) ==
    IF ~ Decodes(body) THEN Reply(db, 400, "Invalid request body")
    ELSE IF body.username = EmptyStr \/ body.email = EmptyStr \/ body.password = EmptyStr
         THEN Reply(db, 400, "Username, email, and password are required")
    ELSE LET got == Create(db, body)
         IN IF got.err = ErrUsernameExists THEN Reply(db, 409, "Username already exists")
            ELSE IF got.err = ErrEmailExists THEN Reply(db, 409, "Email already exists")
            ELSE Reply(got.db, 201, [id |-> got.val.id, username |-> got.val.username,
                                     isActive |-> got.val.isActive])

\* UserHandler.UpdateUser; idText is the {id} path variable
HandleUpdateUser(db, idText, body) ==
    LET id == Atoi(idText)
    IN IF ~ id.ok THEN Reply(db, 400, "Invalid user ID")
       ELSE IF ~ Decodes(body) THEN Reply(db, 400, "Invalid request body")
       ELSE LET got == Update(db, id.val, body)
            IN IF got.err = ErrUserNotFound THEN Reply(db, 404, "User not found")
               ELSE Reply(got.db, 200, [id |-> got.val.id, username |-> got.val.username,
                                        isActive |-> got.val.isActive])

\* UserHandler.DeleteUser
HandleDeleteUser(db, idText) ==
    LET id == Atoi(idText)
    IN IF ~ id.ok THEN Reply(db, 400, "Invalid user ID")
       ELSE LET got == Delete(db, id.val)
            IN IF got.err = ErrUserNotFound THEN Reply(db, 404, "User not found")
               ELSE IF got.err # "" THEN Reply(db, 500, "Error deleting user")
               ELSE Reply(got.db, 204, "")

\* UserHandler.Login at time t; body is undecodable or [username, password]
HandleLogin(db, body, t) ==
    IF ~ Decodes(body) THEN Reply(db, 400, "Invalid request body")
    ELSE IF body.username = EmptyStr \/ body.password = EmptyStr
         THEN Reply(db, 400, "Username and password are required")
    ELSE LET auth == Authenticate(db, body.username, body.password)
         IN IF auth.err # "" THEN Reply(db, 401, "Invalid credentials")
            ELSE LET n == db.seq.token + 1
                     token == generateToken(n)
                     drawn == [db EXCEPT !.seq.token = n]
                     made == CreateSession(drawn, auth.val.id, token, t + SessionTTL)
                 IN IF made.err # "" THEN Reply(drawn, 500, "Error creating session")
                    ELSE Reply(made.db, 200, [user |-> auth.val.id, token |-> token])

\* UserHandler.Logout
HandleLogout(db, authHeader) ==
    IF authHeader = EmptyStr THEN Reply(db, 401, "Authorization header required")
    ELSE Reply(DeleteSession(db, ExtractToken(authHeader)).db, 204, "")

\* UserHandler.VerifyToken at time t
HandleVerifyToken(db, authHeader, t) ==
    IF authHeader = EmptyStr THEN Reply(db, 401, "Authorization header required")
    ELSE LET got == GetSessionByToken(db, ExtractToken(authHeader), t)
         IN IF got.err # "" THEN Reply(got.db, 401, "Invalid or expired token")
            ELSE Reply(got.db, 200, [id |-> got.val[2].id, username |-> got.val[2].username,
                                     isActive |-> got.val[2].isActive])

\* AuthHandler.ValidateAPIKey at time t; body is undecodable or [api_key]
HandleValidateAPIKey(db, body, t) ==
    IF ~ Decodes(body) THEN Reply(db, 400, "Invalid request format")
    ELSE LET got == RepoValidateAPIKey(db, body.api_key, t)
         IN IF got.err # "" THEN Reply(db, 401, "Invalid or expired API key")
            ELSE LET user == GetByID(got.db, got.val)
                 IN IF user.err # "" THEN Reply(got.db, 500, "User not found")
                    ELSE Reply(got.db, 200,
                               [valid |-> TRUE,
                                user |-> [id |-> user.val.id, username |-> user.val.username,
                                          is_active |-> user.val.isActive]])

\* middlewares.AuthMiddleware of the user service at time t:
\* [db, ok, userID] when the request may proceed, else [db, ok, status, body]
AuthMiddleware(db, authHeader, t) ==
    IF authHeader = EmptyStr
    THEN [db |-> db, ok |-> FALSE, status |-> 401, body |-> "Authorization header required"]
    ELSE LET got == GetSessionByToken(db, ExtractToken(authHeader), t)
         IN IF got.err # ""
            THEN [db |-> got.db, ok |-> FALSE, status |-> 401,
                  body |-> "Invalid or expired token"]
            ELSE IF ~ got.val[2].isActive
            THEN [db |-> got.db, ok |-> FALSE, status |-> 401,
                  body |-> "Session expired or user inactive"]
            ELSE [db |-> got.db, ok |-> TRUE, userID |-> got.val[2].id]

\* APIKeyHandler.CreateAPIKey behind AuthMiddleware; body is undecodable or [name, expiresAt]
HandleCreateAPIKey(db, authHeader, body, t) ==
    LET mw == AuthMiddleware(db, authHeader, t)
    IN IF ~ mw.ok THEN Reply(mw.db, mw.status, mw.body)
       ELSE IF ~ Decodes(body) THEN Reply(mw.db, 400, "Invalid request format")
       ELSE IF body.name = EmptyStr THEN Reply(mw.db, 400, "Name is required")
       ELSE LET got == RepoCreateAPIKey(mw.db, mw.userID, body.name, body.expiresAt, t)
            IN IF got.err # "" THEN Reply(mw.db, 500, "Failed to create API key")
               ELSE Reply(got.db, 201, got.val)

\* APIKeyHandler.RevokeAPIKey behind AuthMiddleware
HandleRevokeAPIKey(db, authHeader, idText, t) ==
    LET mw == AuthMiddleware(db, authHeader, t)
        id == Atoi(idText)
    IN IF ~ mw.ok THEN Reply(mw.db, mw.status, mw.body)
       ELSE IF ~ id.ok THEN Reply(mw.db, 400, "Invalid key ID")
       ELSE LET got == RepoRevokeAPIKey(mw.db, id.val, mw.userID)
            IN IF got.err # "" THEN Reply(mw.db, 500, "Failed to revoke API key")
               ELSE Reply(got.db, 200, [success |-> TRUE])

\* APIKeyHandler.DeleteAPIKey behind AuthMiddleware
HandleDeleteAPIKey(db, authHeader, idText, t) ==
    LET mw == AuthMiddleware(db, authHeader, t)
        id == Atoi(idText)
    IN IF ~ mw.ok THEN Reply(mw.db, mw.status, mw.body)
       ELSE IF ~ id.ok THEN Reply(mw.db, 400, "Invalid key ID")
       ELSE LET got == RepoDeleteAPIKey(mw.db, id.val, mw.userID)
            IN IF got.err # "" THEN Reply(mw.db, 500, "Failed to delete API key")
               ELSE Reply(got.db, 200, [success |-> TRUE])

----------------------------------------------------------------------------
(* The user service's router.  A request is                                *)
(* [method, path, apiKey, auth, xUserID, xUsername, body]; apiKey, auth,   *)
(* xUserID and xUsername are the headers X-API-Key, Authorization,         *)
(* X-User-ID and X-Username ("" when absent).                              *)

ApiV1 == <<"/api/v1">>

\* APIKeyHandler.GetAPIKeys behind AuthMiddleware
HandleGetAPIKeys(db, authHeader, t) ==
    LET mw == AuthMiddleware(db, authHeader, t)
    IN IF ~ mw.ok THEN Reply(mw.db, mw.status, mw.body)
       ELSE Reply(mw.db, 200, [api_keys |-> {k \in mw.db.apiKeys : k.userID = mw.userID}])

\* UserHandler.GetUser
HandleGetUser(db, idText) ==
    LET id == Atoi(idText)
    IN IF ~ id.ok THEN Reply(db, 400, "Invalid user ID")
       ELSE IF GetByID(db, id.val).err # "" THEN Reply(db, 404, "User not found")
       ELSE Reply(db, 200, [id |-> id.val])

\* the routes registered in the user service's main: <<methods, handler>> of the
\* route whose path template matches, or << >> when none does
UserServiceRoute(path) ==
    IF path = <<"/health">> THEN <<{"GET"}, "health">>
    ELSE IF path = <<"/api/auth", "/validate-key">> THEN <<{"POST"}, "validate-key">>
    ELSE IF path = ApiV1 \o <<"/login">> THEN <<{"POST"}, "login">>
    ELSE IF path = ApiV1 \o <<"/logout">> THEN <<{"POST"}, "logout">>
    ELSE IF path = ApiV1 \o <<"/verify-token">> THEN <<{"POST"}, "verify-token">>
    ELSE IF path = ApiV1 \o <<"/users">> THEN <<{"GET", "POST"}, "users">>
    ELSE IF Len(path) = 4 /\ SubSeq(path, 1, 3) = ApiV1 \o <<"/users", "/">>
         THEN <<{"GET", "PUT", "DELETE"}, "users/{id}">>
    ELSE IF path = ApiV1 \o <<"/keys">> THEN <<{"GET", "POST"}, "keys">>
    ELSE IF Len(path) = 4 /\ SubSeq(path, 1, 3) = ApiV1 \o <<"/keys", "/">>
         THEN <<{"PUT", "DELETE"}, "keys/{id}">>
    ELSE << >>

\* the user service serving request r at time t
UserServiceServe(db, r, t) ==
    LET route == UserServiceRoute(r.path)
        id == <<r.path[4]>>
    IN IF route = << >> THEN Reply(db, 404, "404 page not found")
       ELSE IF r.method \notin route[1] THEN Reply(db, 405, "")
       ELSE CASE route[2] = "health" -> Reply(db, 200, "OK")
              [] route[2] = "validate-key" -> HandleValidateAPIKey(db, r.body, t)
              [] route[2] = "login" -> HandleLogin(db, r.body, t)
              [] route[2] = "logout" -> HandleLogout(db, r.auth)
              [] route[2] = "verify-token" -> HandleVerifyToken(db, r.auth, t)
              [] route[2] = "users" /\ r.method = "GET" -> Reply(db, 200, "users")
              [] route[2] = "users" /\ r.method = "POST" -> HandleCreateUser(db, r.body)
              [] route[2] = "users/{id}" /\ r.method = "GET" -> HandleGetUser(db, id)
              [] route[2] = "users/{id}" /\ r.method = "PUT" ->
                     HandleUpdateUser(db, id, r.body)
              [] route[2] = "users/{id}" /\ r.method = "DELETE" -> HandleDeleteUser(db, id)
              [] route[2] = "keys" /\ r.method = "GET" -> HandleGetAPIKeys(db, r.auth, t)
              [] route[2] = "keys" /\ r.method = "POST" ->
                     HandleCreateAPIKey(db, r.auth, r.body, t)
              [] route[2] = "keys/{id}" /\ r.method = "PUT" ->
                     HandleRevokeAPIKey(db, r.auth, id, t)
              [] route[2] = "keys/{id}" /\ r.method = "DELETE" ->
                     HandleDeleteAPIKey(db, r.auth, id, t)

NoBody == [kind |-> "none"]

Request(method, path, apiKey, auth, xUserID, xUsername, body) ==
    [method |-> method, path |-> path, query |-> << >>, apiKey |-> apiKey, auth |-> auth,
     xUserID |-> xUserID, xUsername |-> xUsername, body |-> body]

\* url.unescape of a path: the escape %3F stands for the character ?
Unescape(segments) ==
    [i \in 1..Len(segments) |-> IF segments[i] = "%3F" THEN "?" ELSE segments[i]]

\* the place of the first ? in a url's text from place i on, or 0
RECURSIVE IndexQuery(_, _)
IndexQuery(text, i) ==
    IF i > Len(text) THEN 0 ELSE IF text[i] = "?" THEN i ELSE IndexQuery(text, i + 1)

\* url.Parse of the text after a url's host, as the server applies it to a
\* request target and http.NewRequest to its url argument: the text is cut at
\* its first ?, what follows is RawQuery as it stands and what precedes is
\* Path, unescaped
ParseURL(text) ==
    LET cut == IndexQuery(text, 1)
    IN IF cut = 0 THEN [path |-> Unescape(text), query |-> << >>]
       ELSE [path |-> Unescape(SubSeq(text, 1, cut - 1)),
             query |-> SubSeq(text, cut + 1, Len(text))]

\* the request the server hands to its handler for a request line with this
\* target: r.URL.Path and r.URL.RawQuery come from the target's parse
Inbound(method, target, auth) ==
    LET url == ParseURL(target)
    IN [Request(method, url.path, NoHeader, auth, NoHeader, NoHeader, NoBody)
          EXCEPT !.query = url.query]

----------------------------------------------------------------------------
(* The API gateway *)

\* Config.APISecretKey
secretKey == <<"secret">>

\* Config.UserServiceURL, AIServiceURL, AnalyticsServiceURL
UserServiceURL == "http://user-service:8081"
AIServiceURL == "http://ai-service:8082"
AnalyticsServiceURL == "http://analytics-service:8083"

\* main: the route table.  [found, status] when no route serves the request, else
\* [found, auth (the route is behind authMiddleware), target ("" for /health)]
GatewayRoute(r) ==
    LET sub == IF Len(r.path) >= 2 THEN r.path[2] ELSE ""
    IN IF r.path = <<"/health">>
       THEN IF r.method = "GET" THEN [found |-> TRUE, auth |-> FALSE, target |-> ""]
            ELSE [found |-> FALSE, status |-> 405]
       ELSE IF ~ HasPrefix(r.path, ApiV1) THEN [found |-> FALSE, status |-> 404]
       ELSE IF sub \in {"/users", "/login", "/logout", "/verify-token", "/keys"}
            THEN [found |-> TRUE, auth |-> TRUE, target |-> UserServiceURL]
       ELSE IF sub \in {"/completions", "/embeddings", "/similarity", "/images",
                        "/audio", "/tts"}
            THEN [found |-> TRUE, auth |-> TRUE, target |-> AIServiceURL]
       ELSE IF sub \in {"/analytics", "/stats"}
            THEN [found |-> TRUE, auth |-> TRUE, target |-> AnalyticsServiceURL]
       ELSE [found |-> FALSE, status |-> 404]

\* what a network hop does to a call: "ok" delivers request and reply;
\* "unreachable" fails before the callee runs; "timeout" loses the reply of a
\* callee that ran; "garbled" delivers a reply whose body does not decode
HopModes == {"ok", "unreachable", "timeout", "garbled"}

\* json decoding of a number into interface{} gives a float64
Float64(n) == n

\* the decimal digits of n, zero-padded to width w
RECURSIVE DigitsOf(_, _)
DigitsOf(n, w) == IF w = 0 THEN << >> ELSE DigitsOf(n \div 10, w - 1) \o <<ToString(n % 10)>>

RECURSIVE TrimZeros(_)
TrimZeros(d) ==
    IF d # << >> /\ d[Len(d)] = "0" THEN TrimZeros(SubSeq(d, 1, Len(d) - 1)) ELSE d

RECURSIVE Exp10(_)
Exp10(n) == IF n < 10 THEN 0 ELSE 1 + Exp10(n \div 10)

RECURSIVE Pow10(_)
Pow10(e) == IF e = 0 THEN 1 ELSE 10 * Pow10(e - 1)

\* fmt.Sprintf("%v", x) of a float64 holding a natural number: %g with the
\* shortest precision, which is the decimal text below 1e6 and d.ddde+XX from
\* 1e6 on (1000000 prints as 1e+06, 1000001 as 1.000001e+06)
FormatV(x) ==
    LET e == Exp10(x)
        frac == TrimZeros(DigitsOf(x % Pow10(e), e))
    IN IF e < 6 THEN <<ToString(x)>>
       ELSE <<ToString(x \div Pow10(e))>>
            \o (IF frac = << >> THEN << >> ELSE <<".">> \o frac)
            \o <<"e+">> \o DigitsOf(e, 2)

NoUser == [has |-> FALSE]

\* a validateAPIKey that takes a transport error for a valid key (fails open):
\* the fault ForwardOnlyIfAllowed detects
validateAPIKeyFailOpen(db, apiKey, v, t) ==
    LET req == Request("POST", <<"/api/auth", "/validate-key">>, NoHeader, NoHeader,
                       NoHeader, NoHeader, [kind |-> "json", api_key |-> apiKey])
        call(reply, status) == [to |-> "validate-key", reply |-> reply, status |-> status]
        result(served) ==
            IF v = "unreachable"
            THEN [valid |-> TRUE, user |-> NoUser, db |-> db, call |-> call("error", 0)]
            ELSE IF v = "timeout"
            THEN [valid |-> TRUE, user |-> NoUser, db |-> served.db,
                  call |-> call("error", 0)]
            ELSE IF served.status # 200
            THEN [valid |-> FALSE, user |-> NoUser, db |-> served.db,
                  call |-> call("status", served.status)]
            ELSE IF v = "garbled"
            THEN [valid |-> FALSE, user |-> NoUser, db |-> served.db,
                  call |-> call("undecodable", served.status)]
            ELSE [valid |-> served.body.valid,
                  user |-> [has |-> TRUE, id |-> Float64(served.body.user.id),
                            username |-> served.body.user.username],
                  db |-> served.db,
                  call |-> call(IF served.body.valid THEN "valid" ELSE "invalid",
                                served.status)]
    IN result(UserServiceServe(db, req, t))

\* validateAPIKey over a hop in mode v at time t: [valid, user, db, call]; call
\* records the verification call and its reply; served is what the user service
\* does with the call when it arrives
validateAPIKey(db, apiKey, v, t) ==
    LET req == Request("POST", <<"/api/auth", "/validate-key">>, NoHeader, NoHeader,
                       NoHeader, NoHeader, [kind |-> "json", api_key |-> apiKey])
        call(reply, status) == [to |-> "validate-key", reply |-> reply, status |-> status]
        result(served) ==
            IF v = "unreachable"
            THEN [valid |-> FALSE, user |-> NoUser, db |-> db, call |-> call("error", 0)]
            ELSE IF v = "timeout"
            THEN [valid |-> FALSE, user |-> NoUser, db |-> served.db,
                  call |-> call("error", 0)]
            ELSE IF served.status # 200
            THEN [valid |-> FALSE, user |-> NoUser, db |-> served.db,
                  call |-> call("status", served.status)]
            ELSE IF v = "garbled"
            THEN [valid |-> FALSE, user |-> NoUser, db |-> served.db,
                  call |-> call("undecodable", served.status)]
            ELSE [valid |-> served.body.valid,
                  user |-> [has |-> TRUE, id |-> Float64(served.body.user.id),
                            username |-> served.body.user.username],
                  db |-> served.db,
                  call |-> call(IF served.body.valid THEN "valid" ELSE "invalid",
                                served.status)]
    IN result(UserServiceServe(db, req, t))

Unauthorized(db, msg, calls) ==
    [next |-> FALSE, status |-> 401, body |-> msg, db |-> db, user |-> NoUser,
     calls |-> calls]

Proceed(db, user, calls, why) ==
    [next |-> TRUE, db |-> db, user |-> user, calls |-> calls, why |-> why]

\* a bearerAuth that takes a header of any scheme for a token and has it checked:
\* the fault NoCredentialsRejected detects
bearerAuthAnyScheme(db, r, v, t) ==
    LET token == TrimPrefix(r.auth, Bearer)
        verifyReq == Request("POST", ApiV1 \o <<"/verify-token">>, NoHeader, r.auth,
                             NoHeader, NoHeader, NoBody)
        call(reply, status) == [to |-> "verify-token", reply |-> reply, status |-> status]
        result(served) ==
            IF v = "unreachable"
            THEN [next |-> FALSE, status |-> 500, body |-> "Internal server error",
                  db |-> db, user |-> NoUser, calls |-> <<call("error", 0)>>]
            ELSE IF v = "timeout"
            THEN [next |-> FALSE, status |-> 500, body |-> "Internal server error",
                  db |-> served.db, user |-> NoUser, calls |-> <<call("error", 0)>>]
            ELSE IF served.status # 200
            THEN Unauthorized(served.db, "Unauthorized: Invalid token",
                              <<call("status", served.status)>>)
            ELSE Proceed(served.db, NoUser, <<call("status", served.status)>>, "session")
    IN IF r.auth = EmptyStr
       THEN Unauthorized(db, "Unauthorized: Missing or invalid Authorization header", << >>)
       ELSE IF token = EmptyStr THEN Unauthorized(db, "Unauthorized: Empty token", << >>)
       ELSE IF token = secretKey THEN Proceed(db, NoUser, << >>, "secret")
       ELSE result(UserServiceServe(db, verifyReq, t))

\* authMiddleware, the Authorization branch: the header's shape, the shared
\* secret, then the session check at the user service over a hop in mode v
bearerAuth(db, r, v, t) ==
    LET token == TrimPrefix(r.auth, Bearer)
        verifyReq == Request("POST", ApiV1 \o <<"/verify-token">>, NoHeader, r.auth,
                             NoHeader, NoHeader, NoBody)
        call(reply, status) == [to |-> "verify-token", reply |-> reply, status |-> status]
        result(served) ==
            IF v = "unreachable"
            THEN [next |-> FALSE, status |-> 500, body |-> "Internal server error",
                  db |-> db, user |-> NoUser, calls |-> <<call("error", 0)>>]
            ELSE IF v = "timeout"
            THEN [next |-> FALSE, status |-> 500, body |-> "Internal server error",
                  db |-> served.db, user |-> NoUser, calls |-> <<call("error", 0)>>]
            ELSE IF served.status # 200
            THEN Unauthorized(served.db, "Unauthorized: Invalid token",
                              <<call("status", served.status)>>)
            ELSE Proceed(served.db, NoUser, <<call("status", served.status)>>, "session")
    IN IF r.auth = EmptyStr \/ ~ HasPrefix(r.auth, Bearer)
       THEN Unauthorized(db, "Unauthorized: Missing or invalid Authorization header", << >>)
       ELSE IF token = EmptyStr THEN Unauthorized(db, "Unauthorized: Empty token", << >>)
       ELSE IF token = secretKey THEN Proceed(db, NoUser, << >>, "secret")
       ELSE result(UserServiceServe(db, verifyReq, t))

\* an authMiddleware that falls through to the Authorization header when the
\* key is not validated: the fault InvalidKeyRejected detects
authMiddlewareFallThrough(db, r, v, t) ==
    LET decide(got) ==
            IF got.valid THEN Proceed(got.db, got.user, <<got.call>>, "api-key")
            ELSE bearerAuth(got.db, r, v, t)
    IN IF r.path = <<"/health">> THEN Proceed(db, NoUser, << >>, "allow-list")
       ELSE IF r.path = ApiV1 \o <<"/login">>
               \/ (r.path = ApiV1 \o <<"/users">> /\ r.method = "POST")
       THEN Proceed(db, NoUser, << >>, "allow-list")
       ELSE IF r.apiKey # EmptyStr THEN decide(validateAPIKey(db, r.apiKey, v, t))
       ELSE bearerAuth(db, r, v, t)

\* an authMiddleware that looks for the shared secret before it looks at the
\* X-API-Key header, so that a key sent along with the secret is never
\* validated: the fault OneVerificationDecides detects
authMiddlewareSecretFirst(db, r, v, t) ==
    LET decide(got) ==
            IF got.valid THEN Proceed(got.db, got.user, <<got.call>>, "api-key")
            ELSE Unauthorized(got.db, "Unauthorized: Invalid API key", <<got.call>>)
    IN IF r.path = <<"/health">> THEN Proceed(db, NoUser, << >>, "allow-list")
       ELSE IF r.path = ApiV1 \o <<"/login">>
               \/ (r.path = ApiV1 \o <<"/users">> /\ r.method = "POST")
       THEN Proceed(db, NoUser, << >>, "allow-list")
       ELSE IF r.auth = Bearer \o secretKey THEN Proceed(db, NoUser, << >>, "secret")
       ELSE IF r.apiKey # EmptyStr THEN decide(validateAPIKey(db, r.apiKey, v, t))
       ELSE bearerAuth(db, r, v, t)

\* authMiddleware on request r, its verification hop in mode v, at time t:
\* [next, db, user, calls, why] when the wrapped handler runs, else
\* [next, status, body, db, user, calls]
authMiddleware(db, r, v, t) ==
    LET decide(got) ==
            IF got.valid THEN Proceed(got.db, got.user, <<got.call>>, "api-key")
            ELSE Unauthorized(got.db, "Unauthorized: Invalid API key", <<got.call>>)
    IN IF r.path = <<"/health">> THEN Proceed(db, NoUser, << >>, "allow-list")
       ELSE IF r.path = ApiV1 \o <<"/login">>
               \/ (r.path = ApiV1 \o <<"/users">> /\ r.method = "POST")
       THEN Proceed(db, NoUser, << >>, "allow-list")
       ELSE IF r.apiKey # EmptyStr THEN decide(validateAPIKey(db, r.apiKey, v, t))
       ELSE bearerAuth(db, r, v, t)

\* the replies of the AI and analytics services, which the gateway passes through
UpstreamStatuses == {200, 401}

\* createProxyHandler's outbound request for request r carrying the context
\* value user: the url is the target followed by r.URL.Path and, when RawQuery
\* is not empty, by ? and RawQuery, and http.NewRequest parses it; the headers
\* are r's, with X-User-ID and X-Username set from the context value
proxyRequest(r, user) ==
    LET url == ParseURL(r.path \o (IF r.query # << >> THEN <<"?">> \o r.query ELSE << >>))
        req == [r EXCEPT !.path = url.path, !.query = url.query]
    IN IF user.has
       THEN [req EXCEPT !.xUserID = FormatV(user.id), !.xUsername = user.username]
       ELSE req

\* a createProxyHandler that tries the upstream a second time when it cannot be
\* reached: the fault UpstreamFailureIs502 detects
createProxyHandlerRetrying(targetURL, db, r, user, u, up, t) ==
    LET req == proxyRequest(r, user)
        out == [target |-> targetURL, req |-> req]
        answer(served) == [status |-> served.status, body |-> served.body]
        result(served) ==
            IF u = "unreachable"
            THEN [status |-> 502, body |-> "Failed to forward request", db |-> db,
                  upstream |-> <<out, out>>, served |-> << >>]
            ELSE IF u = "timeout"
            THEN [status |-> 502, body |-> "Failed to forward request", db |-> served.db,
                  upstream |-> <<out>>, served |-> <<answer(served)>>]
            ELSE [status |-> served.status, body |-> served.body, db |-> served.db,
                  upstream |-> <<out>>, served |-> <<answer(served)>>]
    IN IF targetURL = UserServiceURL THEN result(UserServiceServe(db, req, t))
       ELSE result(Reply(db, up, "upstream"))

\* createProxyHandler(targetURL) on request r carrying the context value user; the
\* hop to the upstream is in mode u, and an upstream other than the user service
\* answers with status up: [status, body, db, upstream, served]
createProxyHandler(targetURL, db, r, user, u, up, t) ==
    LET req == proxyRequest(r, user)
        out == [target |-> targetURL, req |-> req]
        answer(served) == [status |-> served.status, body |-> served.body]
        result(served) ==
            IF u = "unreachable"
            THEN [status |-> 502, body |-> "Failed to forward request", db |-> db,
                  upstream |-> <<out>>, served |-> << >>]
            ELSE IF u = "timeout"
            THEN [status |-> 502, body |-> "Failed to forward request", db |-> served.db,
                  upstream |-> <<out>>, served |-> <<answer(served)>>]
            ELSE [status |-> served.status, body |-> served.body, db |-> served.db,
                  upstream |-> <<out>>, served |-> <<answer(served)>>]
    IN IF targetURL = UserServiceURL THEN result(UserServiceServe(db, req, t))
       ELSE result(Reply(db, up, "upstream"))

\* createProxyHandler: http.MaxBytesReader(w, resp.Body, 10*1024*1024)
MaxResponseBytes == 10 * 1024 * 1024

\* io.Copy moves the body through a buffer of 32 KiB
CopyBufferBytes == 32 * 1024

Min(a, b) == IF a < b THEN a ELSE b

\* io.LimitReader's Read in place of http.MaxBytesReader's: at the limit the
\* body ends as if it were complete: the fault CapTruncatesAndLogs detects
limitReaderRead(remaining, allowance, chunk) ==
    LET ask == Min(CopyBufferBytes, allowance)
        got == Min(Min(ask, chunk), remaining)
    IN IF remaining = 0 \/ allowance = 0
       THEN [n |-> 0, err |-> "EOF", remaining |-> remaining, allowance |-> allowance]
       ELSE [n |-> got, err |-> "", remaining |-> remaining - got,
             allowance |-> allowance - got]

\* one Read of http.MaxBytesReader(w, resp.Body, limit) into io.Copy's buffer,
\* when the body has remaining bytes to give, hands over at most chunk bytes
\* per Read, and the reader allows allowance more bytes.  The Read asks for a
\* full buffer, or for allowance + 1 bytes when that is less; when it gets more
\* than the allowance it passes the allowance on together with the error
\* "http: request body too large": [n, err, remaining, allowance]
maxBytesReaderRead(remaining, allowance, chunk) ==
    LET ask == IF CopyBufferBytes - 1 > allowance THEN allowance + 1 ELSE CopyBufferBytes
        got == Min(Min(ask, chunk), remaining)
    IN IF remaining = 0
       THEN [n |-> 0, err |-> "EOF", remaining |-> 0, allowance |-> allowance]
       ELSE IF got <= allowance
       THEN [n |-> got, err |-> "", remaining |-> remaining - got,
             allowance |-> allowance - got]
       ELSE [n |-> allowance, err |-> "http: request body too large",
             remaining |-> remaining - got, allowance |-> 0]

\* one round of io.Copy(w, limited) in copying state c: Read, Write what was
\* read, and stop on an error; an error other than EOF is the copy's error,
\* which createProxyHandler logs ("Failed to write response")
copyRound(c) ==
    LET read == maxBytesReaderRead(c.remaining, c.allowance, c.chunk)
        written == c.written + read.n
    IN IF read.err = ""
       THEN [c EXCEPT !.remaining = read.remaining, !.allowance = read.allowance,
                      !.written = written]
       ELSE [op |-> "copy", size |-> c.size, chunk |-> c.chunk, written |-> written,
             logged |-> read.err # "EOF"]

\* a gateway whose authMiddleware wraps the whole router, the not-found handler
\* included: the fault UnroutedIs404 detects
GatewayServeAuthFirst(db, r, v, u, up, t) ==
    LET route == GatewayRoute(r)
        seen(status, body, calls, upstream, served, why) ==
            [op |-> "gateway", req |-> r, at |-> t, net |-> [v |-> v, u |-> u, up |-> up],
             status |-> status, body |-> body, verify |-> calls, upstream |-> upstream,
             served |-> served, why |-> why]
        forward(mw, px) ==
            [db |-> px.db,
             seen |-> seen(px.status, px.body, mw.calls, px.upstream, px.served, mw.why)]
        handle(mw) ==
            IF ~ mw.next
            THEN [db |-> mw.db,
                  seen |-> seen(mw.status, mw.body, mw.calls, << >>, << >>, "rejected")]
            ELSE IF ~ route.found
            THEN [db |-> mw.db,
                  seen |-> seen(route.status, "", mw.calls, << >>, << >>, "no route")]
            ELSE forward(mw, createProxyHandler(route.target, mw.db, r, mw.user, u, up, t))
    IN IF route.found /\ ~ route.auth
       THEN [db |-> db, seen |-> seen(200, "OK", << >>, << >>, << >>, "health")]
       ELSE handle(authMiddleware(db, r, v, t))

\* the gateway serving request r at time t: the router, then authMiddleware,
\* then the route's handler
GatewayServe(db, r, v, u, up, t) ==
    LET route == GatewayRoute(r)
        seen(status, body, calls, upstream, served, why) ==
            [op |-> "gateway", req |-> r, at |-> t, net |-> [v |-> v, u |-> u, up |-> up],
             status |-> status, body |-> body, verify |-> calls, upstream |-> upstream,
             served |-> served, why |-> why]
        forward(mw, px) ==
            [db |-> px.db,
             seen |-> seen(px.status, px.body, mw.calls, px.upstream, px.served, mw.why)]
        handle(mw) ==
            IF ~ mw.next
            THEN [db |-> mw.db,
                  seen |-> seen(mw.status, mw.body, mw.calls, << >>, << >>, "rejected")]
            ELSE forward(mw, createProxyHandler(route.target, mw.db, r, mw.user, u, up, t))
    IN IF ~ route.found
       THEN [db |-> db, seen |-> seen(route.status, "", << >>, << >>, << >>, "no route")]
       ELSE IF ~ route.auth
       THEN [db |-> db, seen |-> seen(200, "OK", << >>, << >>, << >>, "health")]
       ELSE handle(authMiddleware(db, r, v, t))

----------------------------------------------------------------------------
(* History: what the user service has completed so far *)

NoHistory == [loggedOut |-> {}, revoked |-> {}, expired |-> {}]

\* database db holds a session of this token that has expired at time t
ExpiredAt(db, token, t) ==
    \E s \in db.sessions : s.token = token /\ Before(s.expiresAt, t)

\* the history after the user service answered request r with reply, from database db
HistAfter(h, db, r, reply) ==
    LET route == UserServiceRoute(r.path)
        kind == IF route = << >> \/ r.method \notin route[1] THEN "" ELSE route[2]
    IN IF kind = "logout" /\ reply.status = 204
       THEN [h EXCEPT !.loggedOut =
                @ \cup {s.token : s \in {x \in db.sessions : x.token = ExtractToken(r.auth)}}]
       ELSE IF kind = "keys/{id}" /\ r.method = "PUT" /\ reply.status = 200
       THEN [h EXCEPT !.revoked =
                @ \cup {k.key : k \in {x \in db.apiKeys : Itoa(x.id) = <<r.path[4]>>}}]
       ELSE h

----------------------------------------------------------------------------
(* Requests the clients make *)

Usernames == {<<"alice">>, <<"bob">>, <<"carol">>}

NewUser(n) == [kind |-> "json", username |-> n, email |-> n \o <<"@example.com">>,
               password |-> <<"pw">>]

NewUsers == {NewUser(n) : n \in Usernames}

LoginBodies == {[kind |-> "json", username |-> n, password |-> pw] :
                   n \in {<<"alice">>, <<"bob">>}, pw \in {<<"pw">>, <<"bad">>}}

UserIDs == (FirstUserID - 1)..(FirstUserID + MaxUsers - 1)
KeyIDs == 1..MaxKeys

Tokens == {generateToken(n) : n \in 1..MaxSessions}

\* Authorization headers that carry a session token, well-formed or bare
TokenHeaders == {Bearer \o tk : tk \in Tokens} \cup {generateToken(1)}

\* Authorization headers of every shape authMiddleware tells apart
AuthHeaders ==
    {NoHeader, <<"Basic ", "dXNlcg==">>, Bearer, Bearer \o secretKey, Bearer \o <<"bogus">>}
    \cup {Bearer \o tk : tk \in Tokens}

APIKeyHeaders == {NoHeader, <<"sk_", "bogus">>} \cup {generateAPIKey(n) : n \in KeyIDs}

\* expires_at of a key creation request: the zero time, or instant 2
KeyBodies == {[kind |-> "json", name |-> <<"ci-bot">>, expiresAt |-> e] : e \in {0, 2}}

ActiveBodies == {[kind |-> "json", isActive |-> a] : a \in {"true", "false"}}

Plain(method, path, auth, body) ==
    Request(method, path, NoHeader, auth, NoHeader, NoHeader, body)

\* the Authorization headers sent along with an X-API-Key
KeyCompanions == {NoHeader, Bearer \o secretKey, Bearer \o generateToken(1)}

\* requests to a protected route: every Authorization header without a key,
\* and every key alone, with the shared secret and with a session token
ProbeRequests ==
    {Request("GET", ApiV1 \o <<"/completions">>, NoHeader, a, NoHeader, NoHeader, NoBody) :
        a \in AuthHeaders}
    \cup {Request("GET", ApiV1 \o <<"/completions">>, k, a, NoHeader, NoHeader, NoBody) :
             k \in APIKeyHeaders \ {NoHeader}, a \in KeyCompanions}

\* requests that bring X-User-ID and X-Username headers of the caller's own
ForgedRequests ==
    {Request("GET", ApiV1 \o <<"/completions">>, k, a, Itoa(FirstUserID), <<"mallory">>,
             NoBody) :
        k \in {NoHeader, generateAPIKey(1)}, a \in KeyCompanions}

\* requests for the user service's operations, sent through the gateway
ProxiedRequests ==
    {Plain("POST", ApiV1 \o <<"/login">>, NoHeader, b) : b \in LoginBodies}
    \cup {Plain("POST", ApiV1 \o <<"/users">>, NoHeader, NewUser(<<"carol">>)),
          Plain("POST", ApiV1 \o <<"/logout">>, Bearer \o generateToken(1), NoBody),
          Plain("PUT", ApiV1 \o <<"/users", "/">> \o Itoa(FirstUserID), Bearer \o secretKey,
                [kind |-> "json", isActive |-> "false"]),
          Plain("PUT", ApiV1 \o <<"/keys", "/">> \o Itoa(1), Bearer \o generateToken(1),
                NoBody)}
    \cup {Plain("POST", ApiV1 \o <<"/keys">>, Bearer \o generateToken(1), b) : b \in KeyBodies}

\* requests that meet the route table's edges
EdgeRequests ==
    {Plain("GET", <<"/health">>, NoHeader, NoBody),
     Plain("POST", <<"/health">>, NoHeader, NoBody),
     Plain("GET", ApiV1 \o <<"/nope">>, NoHeader, NoBody),
     Plain("GET", ApiV1 \o <<"/nope">>, Bearer \o secretKey, NoBody),
     Plain("GET", ApiV1 \o <<"/nope">>, Bearer \o generateToken(1), NoBody),
     Request("GET", ApiV1 \o <<"/nope">>, generateAPIKey(1), NoHeader, NoHeader, NoHeader,
             NoBody),
     Plain("GET", <<"/metrics">>, Bearer \o generateToken(1), NoBody),
     Plain("POST", <<"/api/auth", "/validate-key">>, NoHeader,
           [kind |-> "json", api_key |-> generateAPIKey(1)]),
     Plain("GET", ApiV1 \o <<"/users">>, NoHeader, NoBody),
     Plain("GET", ApiV1 \o <<"/login", "/x">>, NoHeader, NoBody),
     Inbound("GET", ApiV1 \o <<"/completions", "?", "page=2">>, Bearer \o secretKey),
     Inbound("GET", ApiV1 \o <<"/completions", "%3F", "page=2">>, Bearer \o secretKey)}

GatewayRequests == ProbeRequests \cup ForgedRequests \cup ProxiedRequests \cup EdgeRequests

\* what the network does to the verification hop (v) and to the upstream hop (u),
\* and the status with which an upstream other than the user service answers (up)
Net(v, u, up) == [v |-> v, u |-> u, up |-> up]

NetCases ==
    {Net("ok", "ok", st) : st \in UpstreamStatuses}
    \cup {Net(v, "ok", 200) : v \in HopModes}
    \cup {Net("ok", u, 200) : u \in {"unreachable", "timeout"}}

----------------------------------------------------------------------------
(* The state machine.  Handlers run one at a time: a request is served whole *)
(* and its response is read (Close) before the next request is sent.         *)

Idle == [op |-> "idle"]

Account(id, n) ==
    [id |-> id, username |-> n, email |-> n \o <<"@example.com">>,
     passwordHash |-> HashPassword(<<"pw">>), isActive |-> TRUE]

\* the user service once the accounts alice and bob have been registered, as
\* the last of FirstUserID + 1 registrations
Init ==
    /\ now = 1
    /\ users = {Account(FirstUserID, <<"alice">>), Account(FirstUserID + 1, <<"bob">>)}
    /\ sessions = {}
    /\ apiKeys = {}
    /\ seq = [user |-> FirstUserID + 1, token |-> 0, key |-> 0]
    /\ last = Idle
    /\ hist = NoHistory
    /\ roles = {}
    /\ userRoles = {}
    /\ aiCallLogs = {}
    /\ aiStatistics = {}
    /\ aggregations = {}
    /\ validations = {}

\* the bounds on what is ever created
WithinBounds(db) ==
    /\ db.seq.user < FirstUserID + MaxUsers
    /\ db.seq.token <= MaxSessions
    /\ db.seq.key <= MaxKeys

Store(db) ==
    /\ users' = db.users
    /\ sessions' = db.sessions
    /\ apiKeys' = db.apiKeys
    /\ seq' = db.seq

\* time passes
Tick ==
    /\ last = Idle
    /\ now < MaxTime
    /\ now' = now + 1
    /\ UNCHANGED <<users, sessions, apiKeys, seq, last, hist, roleTables, analytics, validations>>

\* the client has read the response
Close ==
    /\ last # Idle
    /\ last' = Idle
    /\ UNCHANGED <<now, users, sessions, apiKeys, seq, hist, roleTables, analytics, validations>>

\* the user service serves request r, sent to it directly, from database db
DirectOn(db, r) ==
    \E reply \in {UserServiceServe(db, r, now)} :
        /\ WithinBounds(reply.db)
        /\ Store(reply.db)
        /\ last' = [op |-> "user-service", req |-> r, at |-> now,
                    status |-> reply.status, body |-> reply.body]
        /\ hist' = HistAfter(hist, db, r, reply)
        /\ UNCHANGED <<now, roleTables, analytics, validations>>

Direct(r) == DirectOn(DB, r)

CreateUser ==
    /\ last = Idle
    /\ \E b \in NewUsers : Direct(Plain("POST", ApiV1 \o <<"/users">>, NoHeader, b))

UpdateUser ==
    /\ last = Idle
    /\ \E i \in UserIDs, b \in ActiveBodies :
          Direct(Plain("PUT", ApiV1 \o <<"/users", "/">> \o Itoa(i), NoHeader, b))

DeleteUser ==
    /\ last = Idle
    /\ \E i \in UserIDs :
          Direct(Plain("DELETE", ApiV1 \o <<"/users", "/">> \o Itoa(i), NoHeader, NoBody))

Login ==
    /\ last = Idle
    /\ \E b \in LoginBodies : Direct(Plain("POST", ApiV1 \o <<"/login">>, NoHeader, b))

Logout ==
    /\ last = Idle
    /\ \E a \in TokenHeaders : Direct(Plain("POST", ApiV1 \o <<"/logout">>, a, NoBody))

\* a session check; the lazy delete of an expired row succeeds or fails
VerifyToken ==
    /\ last = Idle
    /\ \E a \in TokenHeaders, deletes \in BOOLEAN :
          DirectOn([DB EXCEPT !.deletes = deletes],
                   Plain("POST", ApiV1 \o <<"/verify-token">>, a, NoBody))

ValidateAPIKey ==
    /\ last = Idle
    /\ \E k \in APIKeyHeaders \ {NoHeader} :
          Direct(Plain("POST", <<"/api/auth", "/validate-key">>, NoHeader,
                       [kind |-> "json", api_key |-> k]))

CreateAPIKey ==
    /\ last = Idle
    /\ \E a \in TokenHeaders, b \in KeyBodies :
          Direct(Plain("POST", ApiV1 \o <<"/keys">>, a, b))

RevokeAPIKey ==
    /\ last = Idle
    /\ \E a \in TokenHeaders, i \in KeyIDs :
          Direct(Plain("PUT", ApiV1 \o <<"/keys", "/">> \o Itoa(i), a, NoBody))

DeleteAPIKey ==
    /\ last = Idle
    /\ \E a \in TokenHeaders, i \in KeyIDs :
          Direct(Plain("DELETE", ApiV1 \o <<"/keys", "/">> \o Itoa(i), a, NoBody))

\* the network cases that differ for a request which, undisturbed, is seen as
\* quiet: a hop that is not used cannot fail, and of the verification replies
\* only the key validation's body is decoded
Relevant(quiet) ==
    {n \in NetCases :
        /\ (n.v # "ok" => quiet.verify # << >>)
        /\ (n.v = "garbled" => quiet.verify[1].to = "validate-key")
        /\ (n.u # "ok" => quiet.upstream # << >>)
        /\ (n.up # 200 => /\ quiet.upstream # << >>
                          /\ quiet.upstream[1].target # UserServiceURL)}

\* a client calls the gateway with request r
GatewayRequest ==
    /\ last = Idle
    /\ \E r \in GatewayRequests :
        \E quiet \in {GatewayServe(DB, r, "ok", "ok", 200, now).seen} :
        \E n \in Relevant(quiet) :
        \E got \in {GatewayServe(DB, r, n.v, n.u, n.up, now)} :
            /\ WithinBounds(got.db)
            /\ Store(got.db)
            /\ last' = got.seen
            /\ hist' = IF got.seen.served # << >>
                          /\ got.seen.upstream[1].target = UserServiceURL
                       THEN HistAfter(hist, DB, got.seen.upstream[1].req, got.seen.served[1])
                       ELSE hist
    /\ UNCHANGED <<now, roleTables, analytics, validations>>

Next ==
    \/ Tick
    \/ Close
    \/ CreateUser
    \/ UpdateUser
    \/ DeleteUser
    \/ Login
    \/ Logout
    \/ VerifyToken
    \/ ValidateAPIKey
    \/ CreateAPIKey
    \/ RevokeAPIKey
    \/ DeleteAPIKey
    \/ GatewayRequest

Spec == Init /\ [][Next]_vars

----------------------------------------------------------------------------
(* The credential store by itself: its operations applied one at a time to   *)
(* the tables that earlier logins, key creations, revocations and deletions  *)
(* have left behind.                                                         *)

\* the sessions table: empty, or alice's session of token 1 from an earlier login
StoredSessions ==
    {{}} \cup {{[userID |-> FirstUserID, token |-> generateToken(1), expiresAt |-> e]} :
                  e \in 1..(1 + SessionTTL)}

\* the rows api_keys may hold for key id i: either account owns it, revoked or
\* not, with a given or the default expiry
StoredKeys(i) ==
    {[id |-> i, userID |-> u, key |-> generateAPIKey(i), name |-> <<"ci-bot">>,
      expiresAt |-> e, isActive |-> a, lastUsed |-> 0] :
        u \in {FirstUserID, FirstUserID + 1}, e \in {2, 1 + DefaultKeyTTL}, a \in BOOLEAN}

\* the api_keys tables over the ids 1..n: a deleted key leaves a gap
RECURSIVE KeyTables(_)
KeyTables(n) ==
    IF n = 0 THEN {{}}
    ELSE LET rest == KeyTables(n - 1)
         IN rest \cup {T \cup {row} : T \in rest, row \in StoredKeys(n)}

StoreInit ==
    /\ now = 1
    /\ users = {Account(FirstUserID, <<"alice">>), Account(FirstUserID + 1, <<"bob">>)}
    /\ sessions \in StoredSessions
    /\ apiKeys \in KeyTables(MaxRows)
    /\ seq = [user |-> FirstUserID + 1, token |-> 1, key |-> MaxRows]
    /\ last = Idle
    /\ hist = NoHistory
    /\ roles = {}
    /\ userRoles = {}
    /\ aiCallLogs = {}
    /\ aiStatistics = {}
    /\ aggregations = {}
    /\ validations = {}

\* UserRepository.CreateSession is called, as Login calls it, with a fresh token
OpenSession ==
    /\ last = Idle
    /\ seq.token < MaxSessions
    /\ \E uid \in {u.id : u \in users} :
          \E got \in {CreateSession([DB EXCEPT !.seq.token = @ + 1], uid,
                                    generateToken(seq.token + 1), now + SessionTTL)} :
              /\ Store(got.db)
              /\ last' = [op |-> "CreateSession", token |-> got.val.token, at |-> now,
                          err |-> got.err]
    /\ UNCHANGED <<now, hist, roleTables, analytics, validations>>

\* UserRepository.GetSessionByToken is called with a token; the lazy delete of
\* an expired row succeeds or fails.  met is the history the call met
LookupSession ==
    /\ last = Idle
    /\ \E tk \in Tokens, deletes \in BOOLEAN :
          \E got \in {GetSessionByToken([DB EXCEPT !.deletes = deletes], tk, now)} :
              /\ Store(got.db)
              /\ last' = [op |-> "GetSessionByToken", token |-> tk, at |-> now,
                          err |-> got.err, met |-> hist, deletes |-> deletes]
              /\ hist' = IF got.err # "" /\ ExpiredAt(DB, tk, now)
                         THEN [hist EXCEPT !.expired = @ \cup {tk}]
                         ELSE hist
    /\ UNCHANGED <<now, roleTables, analytics, validations>>

\* APIKeyRepository.RevokeAPIKey is called with a key id and a subject id
RevokeKey ==
    /\ last = Idle
    /\ \E id \in 0..MaxRows, uid \in UserIDs :
          \E got \in {RepoRevokeAPIKey(DB, id, uid)} :
              /\ Store(got.db)
              /\ last' = [op |-> "RevokeAPIKey", keyID |-> id, userID |-> uid,
                          err |-> got.err]
    /\ UNCHANGED <<now, hist, roleTables, analytics, validations>>

\* APIKeyRepository.DeleteAPIKey is called with a key id and a subject id
DeleteKey ==
    /\ last = Idle
    /\ \E id \in 0..MaxRows, uid \in UserIDs :
          \E got \in {RepoDeleteAPIKey(DB, id, uid)} :
              /\ Store(got.db)
              /\ last' = [op |-> "DeleteAPIKey", keyID |-> id, userID |-> uid,
                          err |-> got.err]
    /\ UNCHANGED <<now, hist, roleTables, analytics, validations>>

StoreNext ==
    \/ Tick
    \/ Close
    \/ OpenSession
    \/ LookupSession
    \/ RevokeKey
    \/ DeleteKey

StoreSpec == StoreInit /\ [][StoreNext]_vars

----------------------------------------------------------------------------
(* The proxy's copy of an upstream response body, for bodies of sizes around *)
(* the cap.                                                                  *)

\* sizes of upstream response bodies, in bytes
BodySizes ==
    {0, 1, CopyBufferBytes, 2 * MaxResponseBytes}
    \cup ((MaxResponseBytes - SizeSpread)..(MaxResponseBytes + SizeSpread))

\* the most bytes one Read of the upstream's body hands over: a full buffer, or
\* a size that does not divide the cap
ChunkSizes == {CopyBufferBytes, (CopyBufferBytes \div 2) + 1}

\* createProxyHandler starts to copy an upstream response body to the caller
StartCopy ==
    /\ last = Idle
    /\ \E size \in BodySizes, chunk \in ChunkSizes :
          last' = [op |-> "copying", size |-> size, chunk |-> chunk, remaining |-> size,
                   allowance |-> MaxResponseBytes, written |-> 0]
    /\ UNCHANGED <<now, users, sessions, apiKeys, seq, hist, roleTables, analytics, validations>>

\* io.Copy goes through one more round of Read and Write
CopyRound ==
    /\ last.op = "copying"
    /\ last' = copyRound(last)
    /\ UNCHANGED <<now, users, sessions, apiKeys, seq, hist, roleTables, analytics, validations>>

\* the handler returns
CopyDone ==
    /\ last.op = "copy"
    /\ last' = Idle
    /\ UNCHANGED <<now, users, sessions, apiKeys, seq, hist, roleTables, analytics, validations>>

CopyNext ==
    \/ StartCopy
    \/ CopyRound
    \/ CopyDone

CopySpec == Init /\ [][CopyNext]_vars

----------------------------------------------------------------------------
(* LiveSpec: the time one request takes at the gateway.  The request waits     *)
(* for its verification call and for its proxy call, each under its client's   *)
(* timeout, while the clock of its connection runs; times are in seconds.      *)

\* authMiddleware, validateAPIKey: http.Client{Timeout: 5 * time.Second}
VerifyTimeout == 5

\* createProxyHandler: http.Client{Timeout: 30 * time.Second}
ProxyTimeout == 30

\* main: http.Server{WriteTimeout: 15 * time.Second}; the connection's write
\* deadline is set when the request's header has been read
WriteTimeout == 15

\* how a request passes authMiddleware: by the shared secret, which calls
\* nobody, by a session token or by an API key
Credentials == {"secret", "token", "api-key"}

\* the handler has written status, elapsed seconds after the header was read
Responding(status) == [last EXCEPT !.phase = "respond", !.status = status]

\* the server has read a request's header and calls the handler
Accept ==
    /\ last = Idle
    /\ \E cred \in Credentials :
          last' = [op |-> "flight", cred |-> cred,
                   phase |-> IF cred = "secret" THEN "proxy" ELSE "verify",
                   elapsed |-> 0, waited |-> 0, status |-> 0]
    /\ UNCHANGED <<now, users, sessions, apiKeys, seq, hist, roleTables, analytics, validations>>

\* a second passes while the handler waits in client.Do
Second ==
    /\ last.op = "flight"
    /\ \/ last.phase = "verify" /\ last.waited < VerifyTimeout
       \/ last.phase = "proxy" /\ last.waited < ProxyTimeout
    /\ last' = [last EXCEPT !.elapsed = @ + 1, !.waited = @ + 1]
    /\ UNCHANGED <<now, users, sessions, apiKeys, seq, hist, roleTables, analytics, validations>>

\* the user service answers the verification call: with 200 the wrapped
\* handler runs, with another status the request is answered 401
VerifyReply ==
    /\ last.op = "flight"
    /\ last.phase = "verify"
    /\ \E ok \in BOOLEAN :
          last' = IF ok THEN [last EXCEPT !.phase = "proxy", !.waited = 0]
                  ELSE Responding(401)
    /\ UNCHANGED <<now, users, sessions, apiKeys, seq, hist, roleTables, analytics, validations>>

\* the verification call's client gives up: client.Do returns an error, which
\* authMiddleware answers 500 for a token and validateAPIKey turns into an
\* invalid key, 401
VerifyTimesOut ==
    /\ last.op = "flight"
    /\ last.phase = "verify"
    /\ last.waited = VerifyTimeout
    /\ last' = Responding(IF last.cred = "token" THEN 500 ELSE 401)
    /\ UNCHANGED <<now, users, sessions, apiKeys, seq, hist, roleTables, analytics, validations>>

\* the upstream answers the proxy call
UpstreamReply ==
    /\ last.op = "flight"
    /\ last.phase = "proxy"
    /\ \E status \in UpstreamStatuses : last' = Responding(status)
    /\ UNCHANGED <<now, users, sessions, apiKeys, seq, hist, roleTables, analytics, validations>>

\* the proxy call's client gives up: createProxyHandler answers 502
ProxyTimesOut ==
    /\ last.op = "flight"
    /\ last.phase = "proxy"
    /\ last.waited = ProxyTimeout
    /\ last' = Responding(502)
    /\ UNCHANGED <<now, users, sessions, apiKeys, seq, hist, roleTables, analytics, validations>>

\* the handler returns and the server flushes the response to the connection:
\* before the write deadline the caller receives it, after the deadline or on
\* a connection its caller has closed the write fails and nothing is sent
Respond ==
    /\ last.op = "flight"
    /\ last.phase = "respond"
    /\ last' = IF last.elapsed < WriteTimeout /\ "closed" \notin DOMAIN last
               THEN [op |-> "answered", cred |-> last.cred, status |-> last.status,
                     elapsed |-> last.elapsed]
               ELSE [op |-> "dropped", cred |-> last.cred, status |-> last.status,
                     elapsed |-> last.elapsed]
    /\ UNCHANGED <<now, users, sessions, apiKeys, seq, hist, roleTables, analytics, validations>>

\* the exchange is over and the next request can come
Finish ==
    /\ last.op \in {"answered", "dropped"}
    /\ last' = Idle
    /\ UNCHANGED <<now, users, sessions, apiKeys, seq, hist, roleTables, analytics, validations>>

LiveNext ==
    \/ Accept
    \/ Second
    \/ VerifyReply
    \/ VerifyTimesOut
    \/ UpstreamReply
    \/ ProxyTimesOut
    \/ Respond
    \/ Finish

\* time passes, a client that gives up returns, a handler that can write or
\* return does, and callers keep sending requests; no dependency is obliged
\* to answer
LiveSpec ==
    /\ Init
    /\ [][LiveNext]_vars
    /\ WF_vars(Accept)
    /\ WF_vars(Second)
    /\ WF_vars(VerifyTimesOut)
    /\ WF_vars(ProxyTimesOut)
    /\ WF_vars(Respond)
    /\ WF_vars(Finish)

----------------------------------------------------------------------------
(* HangupSpec: LiveSpec's gateway with callers that may close the connection   *)
(* of a request while the handler waits in client.Do.                          *)

\* the caller has closed the connection of the request in flight
Closed == last.op = "flight" /\ "closed" \in DOMAIN last

\* the handler waits for its verification call or for its proxy call
InCall == last.op = "flight" /\ last.phase \in {"verify", "proxy"}

\* the caller closes the connection.  The server cancels r.Context(); the
\* outbound requests are made by http.NewRequest, which gives them the
\* background context, and the handlers do not read r.Context().Done(), so
\* nothing in the handler changes
Hangup ==
    /\ InCall
    /\ ~ Closed
    /\ last' = [op |-> "flight", cred |-> last.cred, phase |-> last.phase,
                elapsed |-> last.elapsed, waited |-> last.waited, status |-> last.status,
                closed |-> TRUE]
    /\ UNCHANGED <<now, users, sessions, apiKeys, seq, hist, roleTables, analytics, validations>>

HangupNext ==
    \/ LiveNext
    \/ Hangup

HangupSpec == Init /\ [][HangupNext]_vars

----------------------------------------------------------------------------
(* RoleSpec: the user service's role tables under UserRepository's            *)
(* AssignUserRoles and DeleteRole.  A row of user_roles is [userID, roleID],   *)
(* which is its primary key; table roles is the set of the role ids.  Each     *)
(* statement sent to the database may fail (fault names the statement).        *)

ErrRoleNotFound == "role not found"

UserRole(userID, roleID) == [userID |-> userID, roleID |-> roleID]

\* AssignUserRoles' loop from its i-th round on, in the transaction's view tx
\* of user_roles: tx.Create of each role id, which the database refuses when
\* the row's key is there already or when it is the refused-th Create;
\* [rows, err]
RECURSIVE CreateUserRoles(_, _, _, _, _)
CreateUserRoles(tx, userID, roleIDs, i, refused) ==
    IF i > Len(roleIDs) THEN [rows |-> tx, err |-> ""]
    ELSE IF refused = i \/ UserRole(userID, roleIDs[i]) \in tx
    THEN [rows |-> tx, err |-> "error creating user-role association"]
    ELSE CreateUserRoles(tx \cup {UserRole(userID, roleIDs[i])}, userID, roleIDs, i + 1,
                         refused)

\* an AssignUserRoles that works on the table without a transaction, so that
\* an error leaves behind what was done before it, and that does not see a
\* failing Commit: the fault AssignIsAllOrNothing detects
RepoAssignUserRolesUnrolled(table, userID, roleIDs, fault, refused) ==
    LET created == CreateUserRoles({ur \in table : ur.userID # userID}, userID, roleIDs, 1,
                                   refused)
    IN IF fault = "begin" THEN [userRoles |-> table, err |-> "error starting transaction"]
       ELSE IF fault = "delete"
       THEN [userRoles |-> table, err |-> "error deleting existing user-role associations"]
       ELSE [userRoles |-> created.rows, err |-> created.err]

\* UserRepository.AssignUserRoles on table user_roles: Begin, Delete of the
\* user's rows, the Creates, Commit; every error path rolls the transaction
\* back, which leaves the table as it was: [userRoles, err]
RepoAssignUserRoles(table, userID, roleIDs, fault, refused) ==
    LET created == CreateUserRoles({ur \in table : ur.userID # userID}, userID, roleIDs, 1,
                                   refused)
    IN IF fault = "begin" THEN [userRoles |-> table, err |-> "error starting transaction"]
       ELSE IF fault = "delete"
       THEN [userRoles |-> table, err |-> "error deleting existing user-role associations"]
       ELSE IF created.err # "" THEN [userRoles |-> table, err |-> created.err]
       ELSE IF fault = "commit"
       THEN [userRoles |-> table, err |-> "error committing transaction"]
       ELSE [userRoles |-> created.rows, err |-> ""]

\* UserRepository.DeleteRole on the two tables: Delete of the role's rows of
\* user_roles, then Delete of the role, each a statement of its own;
\* RowsAffected == 0 of the second is ErrRoleNotFound: [roles, userRoles, err]
RepoDeleteRole(roleTable, table, id, fault) ==
    LET kept == {ur \in table : ur.roleID # id}
    IN IF fault = "first"
       THEN [roles |-> roleTable, userRoles |-> table,
             err |-> "error deleting user-role associations"]
       ELSE IF fault = "second"
       THEN [roles |-> roleTable, userRoles |-> kept, err |-> "error deleting role"]
       ELSE IF id \notin roleTable
       THEN [roles |-> roleTable, userRoles |-> kept, err |-> ErrRoleNotFound]
       ELSE [roles |-> roleTable \ {id}, userRoles |-> kept, err |-> ""]

RoleIDs == 1..MaxRoles

\* the users whose roles are assigned: alice and bob
RoleUsers == {FirstUserID, FirstUserID + 1}

\* the lists of role ids an assignment names, lists that name a role twice included
RoleLists == UNION {[1..n -> RoleIDs] : n \in 0..MaxRoles}

\* the roles have been created, nobody has one yet
RoleInit ==
    /\ now = 1
    /\ users = {Account(FirstUserID, <<"alice">>), Account(FirstUserID + 1, <<"bob">>)}
    /\ sessions = {}
    /\ apiKeys = {}
    /\ seq = [user |-> FirstUserID + 1, token |-> 0, key |-> 0]
    /\ last = Idle
    /\ hist = NoHistory
    /\ roles = RoleIDs
    /\ userRoles = {}
    /\ aiCallLogs = {}
    /\ aiStatistics = {}
    /\ aggregations = {}
    /\ validations = {}

AssignUserRoles ==
    /\ last = Idle
    /\ \E userID \in RoleUsers, roleIDs \in RoleLists :
       \E fault \in {"", "begin", "delete", "commit"}, refused \in 0..Len(roleIDs) :
       \E got \in {RepoAssignUserRoles(userRoles, userID, roleIDs, fault, refused)} :
            /\ userRoles' = got.userRoles
            /\ last' = [op |-> "AssignUserRoles", userID |-> userID, roleIDs |-> roleIDs,
                        err |-> got.err]
    /\ UNCHANGED <<now, users, sessions, apiKeys, seq, hist, roles, analytics, validations>>

DeleteRole ==
    /\ last = Idle
    /\ \E id \in RoleIDs, fault \in {"", "first", "second"} :
       \E got \in {RepoDeleteRole(roles, userRoles, id, fault)} :
            /\ roles' = got.roles
            /\ userRoles' = got.userRoles
            /\ last' = [op |-> "DeleteRole", id |-> id, err |-> got.err]
    /\ UNCHANGED <<now, users, sessions, apiKeys, seq, hist, analytics, validations>>

RoleNext ==
    \/ AssignUserRoles
    \/ DeleteRole
    \/ Close

RoleSpec == RoleInit /\ [][RoleNext]_vars

----------------------------------------------------------------------------
(* RaceSpec: APIKeyRepository.ValidateAPIKey statement by statement, its       *)
(* SELECT and its UPDATE of last_used, with RevokeAPIKey and DeleteAPIKey      *)
(* running in between.                                                         *)

\* a ValidateAPIKey that writes the row it has read back whole (db.Save),
\* which brings back the row's is_active and the row itself: the fault
\* RevokedStaysRevoked detects
SaveLastUsed(table, apiKey, t) ==
    {k \in table : k.id # apiKey.id} \cup {[apiKey EXCEPT !.lastUsed = t]}

\* ValidateAPIKey's r.db.Model(&apiKey).Update("last_used", time.Now()):
\* UPDATE api_keys SET last_used = t WHERE id = apiKey.ID
UpdateLastUsed(table, apiKey, t) ==
    {IF k.id = apiKey.id THEN [k EXCEPT !.lastUsed = t] ELSE k : k \in table}

\* one or no key has been created, by alice or bob, active or revoked
RaceInit ==
    /\ now = 1
    /\ users = {Account(FirstUserID, <<"alice">>), Account(FirstUserID + 1, <<"bob">>)}
    /\ sessions = {}
    /\ apiKeys \in KeyTables(MaxKeys)
    /\ seq = [user |-> FirstUserID + 1, token |-> 0, key |-> MaxKeys]
    /\ last = Idle
    /\ hist = NoHistory
    /\ roles = {}
    /\ userRoles = {}
    /\ aiCallLogs = {}
    /\ aiStatistics = {}
    /\ aggregations = {}
    /\ validations = {}

\* ValidateAPIKey's first statement: the SELECT of the active, unexpired row
\* of the key.  Without a row the call returns its error; with one it goes
\* on to the UPDATE
ValidateSelect ==
    /\ last = Idle
    /\ \E keyString \in {generateAPIKey(n) : n \in KeyIDs} :
       \E rows \in {{k \in apiKeys : k.key = keyString /\ k.isActive /\ k.expiresAt > now}} :
            IF rows = {}
            THEN /\ last' = [op |-> "ValidateAPIKey", key |-> keyString, at |-> now,
                             err |-> "invalid or expired API key"]
                 /\ UNCHANGED validations
            ELSE /\ Cardinality(validations) < MaxRacers
                 /\ validations' = validations \cup {CHOOSE k \in rows : TRUE}
                 /\ last' = [op |-> "ValidateAPIKey.First", key |-> keyString, at |-> now,
                             err |-> ""]
    /\ UNCHANGED <<now, users, sessions, apiKeys, seq, hist, roleTables, analytics>>

\* ValidateAPIKey's second statement and its return of the key's user id
ValidateUpdate ==
    /\ last = Idle
    /\ \E apiKey \in validations :
          /\ apiKeys' = UpdateLastUsed(apiKeys, apiKey, now)
          /\ validations' = validations \ {apiKey}
          /\ last' = [op |-> "ValidateAPIKey", key |-> apiKey.key, at |-> now, err |-> "",
                      id |-> apiKey.id]
    /\ UNCHANGED <<now, users, sessions, seq, hist, roleTables, analytics>>

RaceNext ==
    \/ Tick
    \/ Close
    \/ ValidateSelect
    \/ ValidateUpdate
    \/ RevokeKey
    \/ DeleteKey

RaceSpec == RaceInit /\ [][RaceNext]_vars

----------------------------------------------------------------------------
(* AnalyticsSpec: the analytics service's Repository.LogAICall and the         *)
(* AggregateAICallsToStats goroutine it starts, statement by statement.  A     *)
(* row of ai_call_logs is [id, day], a row of ai_statistics is [id, date,      *)
(* totalAPICalls]; a goroutine is [id, date, pc, totalCalls, existing], where  *)
(* existing is the id of the row its lookup found, 0 for none.                 *)

Days == 1..MaxDays

\* the id the database gives the next row of a table
NextID(table) == Cardinality(table) + 1

\* r.db.Where("date = ?", date).First(&existingStat): the row of that date
\* with the least primary key, as its id; 0 for gorm.ErrRecordNotFound
FirstStatistic(table, date) ==
    LET rows == {st \in table : st.date = date}
    IN IF rows = {} THEN 0
       ELSE (CHOOSE st \in rows : \A other \in rows : st.id <= other.id).id

AnalyticsInit ==
    /\ now = 1
    /\ users = {Account(FirstUserID, <<"alice">>), Account(FirstUserID + 1, <<"bob">>)}
    /\ sessions = {}
    /\ apiKeys = {}
    /\ seq = [user |-> FirstUserID + 1, token |-> 0, key |-> 0]
    /\ last = Idle
    /\ hist = NoHistory
    /\ roles = {}
    /\ userRoles = {}
    /\ aiCallLogs = {}
    /\ aiStatistics = {}
    /\ aggregations = {}
    /\ validations = {}

\* Repository.LogAICall of a call of some day: the row is created and the
\* aggregation of its day starts as a goroutine
LogAICall ==
    /\ Cardinality(aiCallLogs) < MaxCalls
    /\ \E day \in Days :
          /\ aiCallLogs' = aiCallLogs \cup {[id |-> NextID(aiCallLogs), day |-> day]}
          /\ aggregations' = aggregations \cup
                {[id |-> NextID(aiCallLogs), date |-> day, pc |-> "find", totalCalls |-> 0,
                  existing |-> 0]}
    /\ UNCHANGED <<now, users, sessions, apiKeys, seq, last, hist, roleTables, aiStatistics,
                   validations>>

\* AggregateAICallsToStats: Find of the day's logs, whose number is totalCalls
AggregateFind ==
    /\ \E a \in aggregations :
          /\ a.pc = "find"
          /\ aggregations' = (aggregations \ {a}) \cup
                {[a EXCEPT !.pc = "first",
                           !.totalCalls = Cardinality({l \in aiCallLogs : l.day = a.date})]}
    /\ UNCHANGED <<now, users, sessions, apiKeys, seq, last, hist, roleTables, aiCallLogs,
                   aiStatistics, validations>>

\* AggregateAICallsToStats: the lookup of the date's row of ai_statistics
AggregateFirst ==
    /\ \E a \in aggregations :
          /\ a.pc = "first"
          /\ aggregations' = (aggregations \ {a}) \cup
                {[a EXCEPT !.pc = "save", !.existing = FirstStatistic(aiStatistics, a.date)]}
    /\ UNCHANGED <<now, users, sessions, apiKeys, seq, last, hist, roleTables, aiCallLogs,
                   aiStatistics, validations>>

\* AggregateAICallsToStats: Updates of the row found, or Create of a new row
\* when none was found; the goroutine ends
AggregateSave ==
    /\ \E a \in aggregations :
          /\ a.pc = "save"
          /\ aiStatistics' =
                IF a.existing # 0
                THEN {IF st.id = a.existing THEN [st EXCEPT !.totalAPICalls = a.totalCalls]
                      ELSE st : st \in aiStatistics}
                ELSE aiStatistics \cup
                       {[id |-> NextID(aiStatistics), date |-> a.date,
                         totalAPICalls |-> a.totalCalls]}
          /\ aggregations' = aggregations \ {a}
    /\ UNCHANGED <<now, users, sessions, apiKeys, seq, last, hist, roleTables, aiCallLogs,
                   validations>>

AnalyticsNext ==
    \/ LogAICall
    \/ AggregateFind
    \/ AggregateFirst
    \/ AggregateSave

AnalyticsSpec == AnalyticsInit /\ [][AnalyticsNext]_vars

----------------------------------------------------------------------------
(* Properties.  last is the exchange just served; in a step that serves a    *)
(* request, the unprimed variables are the stores the request met.           *)

Gateway == last.op = "gateway"

\* the allow-list: /health, /api/v1/login, POST /api/v1/users
AllowListed(r) ==
    \/ r.path = <<"/health">>
    \/ r.path = ApiV1 \o <<"/login">>
    \/ (r.path = ApiV1 \o <<"/users">> /\ r.method = "POST")

\* r matches a route behind the auth middleware and is not allow-listed
Protected(r) ==
    /\ GatewayRoute(r).found
    /\ GatewayRoute(r).auth
    /\ ~ AllowListed(r)

\* the user service answered the key validation of exchange x with valid
KeyAccepted(x) ==
    /\ x.req.apiKey # EmptyStr
    /\ x.verify = <<[to |-> "validate-key", reply |-> "valid", status |-> 200]>>

\* r has no X-API-Key and its bearer token is the shared secret
SecretPresented(r) ==
    /\ r.apiKey = EmptyStr
    /\ HasPrefix(r.auth, Bearer)
    /\ TrimPrefix(r.auth, Bearer) = secretKey

\* r has no X-API-Key and a bearer token that is not the shared secret
TokenPresented(r) ==
    /\ r.apiKey = EmptyStr
    /\ HasPrefix(r.auth, Bearer)
    /\ TrimPrefix(r.auth, Bearer) \notin {EmptyStr, secretKey}

\* the session check of exchange x returned 200
SessionAccepted(x) ==
    /\ TokenPresented(x.req)
    /\ x.verify = <<[to |-> "verify-token", reply |-> "status", status |-> 200]>>

\* the verification call of exchange x failed: a transport error, a reply
\* other than 200, a reply that does not decode, or the answer "not valid"
VerificationFailed(x) ==
    /\ x.verify # << >>
    /\ \/ x.verify[1].reply \in {"error", "undecodable", "invalid"}
       \/ x.verify[1].status # 200

\* C1: a request that is not allow-listed reaches an upstream only if the user
\* service validated its API key, or its bearer token is the shared secret, or
\* its session check returned 200; after a failed verification call (transport
\* error, non-200, undecodable) no upstream call is made.
ForwardOnlyIfAllowed ==
    (Gateway /\ ~ AllowListed(last.req)) =>
        /\ last.upstream # << >> =>
              KeyAccepted(last) \/ SecretPresented(last.req) \/ SessionAccepted(last)
        /\ VerificationFailed(last) => last.upstream = << >>

\* a request was forwarded after its session check returned 200
ForwardedAfterSessionCheck ==
    Gateway /\ ~ AllowListed(last.req) /\ last.upstream # << >> /\ SessionAccepted(last)

\* r has neither an X-API-Key nor an Authorization of the form Bearer <non-empty>
Credentialless(r) ==
    /\ r.apiKey = EmptyStr
    /\ ~ (HasPrefix(r.auth, Bearer) /\ TrimPrefix(r.auth, Bearer) # EmptyStr)

\* C2: a request to a route behind the auth middleware, not allow-listed, with
\* neither an X-API-Key nor an Authorization of the form Bearer <non-empty
\* token>, is answered 401, with no call to the user service or to an upstream.
NoCredentialsRejected ==
    (Gateway /\ Protected(last.req) /\ Credentialless(last.req)) =>
        /\ last.status = 401
        /\ last.verify = << >>
        /\ last.upstream = << >>

\* a request with a Basic Authorization header was turned away
BasicHeaderRejected ==
    /\ Gateway
    /\ Protected(last.req)
    /\ last.req.apiKey = EmptyStr
    /\ last.req.auth = <<"Basic ", "dXNlcg==">>
    /\ last.status = 401

\* the key store holds key as an active key that has not expired
StoreValidates(key) ==
    \E k \in apiKeys : k.key = key /\ k.isActive /\ now < k.expiresAt

\* the exchange served by this step, a request to the gateway
GatewayStep == last = Idle /\ last'.op = "gateway"

\* C3: a protected request whose X-API-Key the key store does not validate is
\* answered 401 "Invalid API key" after the one key validation call: no session
\* check and no upstream call follow, whatever its Authorization header holds.
InvalidKeyRejected ==
    [][(/\ GatewayStep
        /\ Protected(last'.req)
        /\ last'.req.apiKey # EmptyStr
        /\ ~ StoreValidates(last'.req.apiKey))
       => /\ last'.status = 401
          /\ last'.body = "Unauthorized: Invalid API key"
          /\ Len(last'.verify) = 1
          /\ last'.verify[1].to = "validate-key"
          /\ last'.upstream = << >>]_vars

\* an unknown key was turned away although the shared secret came with it
BogusKeyWithSecretRejected ==
    /\ Gateway
    /\ Protected(last.req)
    /\ last.req.apiKey = <<"sk_", "bogus">>
    /\ last.req.auth = Bearer \o secretKey
    /\ last.status = 401

\* C4: a protected request with no X-API-Key whose bearer token is the shared
\* secret is allowed without a call to the user service and is forwarded with
\* no X-User-ID and no X-Username header.
SecretBypassCarriesNoIdentity ==
    (Gateway /\ Protected(last.req) /\ SecretPresented(last.req)) =>
        /\ last.verify = << >>
        /\ last.upstream # << >>
        /\ last.upstream[1].req.xUserID = NoHeader
        /\ last.upstream[1].req.xUsername = NoHeader

\* C5: with a bearer token that is not the shared secret, a session check that
\* fails, by a reply other than 200 or by a transport error, is answered
\* 401 "Invalid token" and never with another status.
SessionCheckFailureIs401 ==
    (Gateway /\ Protected(last.req) /\ TokenPresented(last.req)
        /\ VerificationFailed(last)) =>
        /\ last.status = 401
        /\ last.body = "Unauthorized: Invalid token"

\* the network delivers every call and the upstream answers 200
QuietNet == [v |-> "ok", u |-> "ok", up |-> 200]

\* C6: while the session of a login lasts, a protected request with its token
\* is not turned away with 401 but forwarded; once a logout with token T has
\* completed, every later protected request with Bearer T is answered 401.
SessionLifecycle ==
    [][(GatewayStep /\ Protected(last'.req) /\ TokenPresented(last'.req)) =>
          /\ \A s \in sessions :
                (/\ last'.req.auth = Bearer \o s.token
                 /\ now < s.expiresAt
                 /\ last'.net = QuietNet) => last'.upstream # << >>
          /\ \A tk \in hist.loggedOut :
                last'.req.auth = Bearer \o tk => last'.status = 401]_vars

\* C7: a protected request with a created key K of subject U is accepted and its
\* upstream call carries X-User-ID equal to U; once the revoke of K has
\* completed, every later request with K is answered 401.
KeyLifecycle ==
    [][(GatewayStep /\ Protected(last'.req) /\ last'.req.apiKey # EmptyStr) =>
          /\ \A k \in apiKeys :
                (/\ last'.req.apiKey = k.key
                 /\ k.isActive
                 /\ now < k.expiresAt
                 /\ last'.net = QuietNet)
                => /\ last'.upstream # << >>
                   /\ last'.upstream[1].req.xUserID = Itoa(k.userID)
          /\ last'.req.apiKey \in hist.revoked => last'.status = 401]_vars

\* the exchange served by this step, a key validation at the user service
ValidateKeyStep ==
    /\ last = Idle
    /\ last'.op = "user-service"
    /\ last'.req.method = "POST"
    /\ last'.req.path = <<"/api/auth", "/validate-key">>

\* C8: a key validation accepts the presented key if and only if a stored key
\* with that value is active and now < expiresAt: an inactive key is rejected
\* whatever its expiry, an active one at every now >= expiresAt.
ValidateKeyIffActiveUnexpired ==
    [][ValidateKeyStep =>
          (last'.status = 200 <=> StoreValidates(last'.req.body.api_key))]_vars

\* an active key was rejected at the instant of its expiry
KeyRejectedAtExpiry ==
    /\ last.op = "user-service"
    /\ last.req.path = <<"/api/auth", "/validate-key">>
    /\ last.status = 401
    /\ \E k \in apiKeys :
          k.key = last.req.body.api_key /\ k.isActive /\ k.expiresAt = last.at

\* the exchange served by this step, a session check at the user service
VerifyTokenStep ==
    /\ last = Idle
    /\ last'.op = "user-service"
    /\ last'.req.method = "POST"
    /\ last'.req.path = ApiV1 \o <<"/verify-token">>

\* C9: the session check rejects the token of a stored session at every
\* now >= expiresAt, the instant now = expiresAt included.
ExpiredSessionRejected ==
    [][VerifyTokenStep =>
          \A s \in sessions :
              (last'.req.auth = Bearer \o s.token /\ now >= s.expiresAt)
              => last'.status = 401]_vars

\* C10: the session check rejects the unexpired session of a user who is not
\* active, and the gateway answers 401 to a protected request with its token.
InactiveSubjectRejected ==
    [][\A s \in sessions :
          (/\ now < s.expiresAt
           /\ \E u \in users : u.id = s.userID /\ ~ u.isActive)
          => /\ (VerifyTokenStep /\ last'.req.auth = Bearer \o s.token)
                   => last'.status = 401
             /\ (/\ GatewayStep
                 /\ Protected(last'.req)
                 /\ last'.req.apiKey = EmptyStr
                 /\ last'.req.auth = Bearer \o s.token)
                   => last'.status = 401]_vars

\* the call served by this step, a lookup of a session token
LookupStep == last = Idle /\ last'.op = "GetSessionByToken"

\* C11: once a lookup of a session token has rejected it as expired, every
\* later lookup of that token rejects it too, whether the lazy delete of the
\* row took place or not; no sweeper runs between the lookups.
RejectedExpiredStaysRejected ==
    [][(LookupStep /\ last'.token \in hist.expired) => last'.err # ""]_vars

\* a token was rejected a second time while its expired row was still stored
RejectedAgainWithRowKept ==
    /\ last.op = "GetSessionByToken"
    /\ last.token \in last.met.expired
    /\ last.err # ""
    /\ \E s \in sessions : s.token = last.token

\* the call served by this step, a revocation or deletion of a key
KeyWriteStep == last = Idle /\ last'.op \in {"RevokeAPIKey", "DeleteAPIKey"}

\* the subject owns the key of this id
Owns(userID, keyID) == \E k \in apiKeys : k.id = keyID /\ k.userID = userID

\* C12: RevokeAPIKey(id, subject) and DeleteAPIKey(id, subject) with a subject
\* that does not own key id leave that key's row and every other row of
\* api_keys as they were.
NonOwnerLeavesKeysUnchanged ==
    [][(KeyWriteStep /\ ~ Owns(last'.userID, last'.keyID)) => apiKeys' = apiKeys]_vars

\* the revocation of another subject's active key was refused, with another
\* key in the table
NonOwnerRevokeRefused ==
    /\ last.op = "RevokeAPIKey"
    /\ last.err # ""
    /\ \E k \in apiKeys : k.id = last.keyID /\ k.userID # last.userID /\ k.isActive
    /\ \E k \in apiKeys : k.id # last.keyID

\* the exchange served by this step, a revoke or delete request for a key at
\* the user service
KeyRequestStep ==
    /\ last = Idle
    /\ last'.op = "user-service"
    /\ last'.req.method \in {"PUT", "DELETE"}
    /\ Len(last'.req.path) = 4
    /\ SubSeq(last'.req.path, 1, 3) = ApiV1 \o <<"/keys", "/">>

\* the subjects request r is authenticated as: the active users whose unexpired
\* session r's token names
Callers(r) ==
    {u.id : u \in {x \in users :
                      /\ x.isActive
                      /\ \E s \in sessions :
                            /\ s.userID = x.id
                            /\ s.token = ExtractToken(r.auth)
                            /\ ~ Before(s.expiresAt, now)}}

\* C13: a revoke or delete request for a key owned by another subject is
\* answered NotFound (404), with the response a key id that never existed gets.
ForeignKeyIsNotFound ==
    [][KeyRequestStep =>
          \A k \in apiKeys, u \in Callers(last'.req) :
              (Itoa(k.id) = <<last'.req.path[4]>> /\ k.userID # u) =>
                  /\ last'.status = 404
                  /\ \E absent \in {UserServiceServe(DB, [last'.req EXCEPT !.path[4] = "0"],
                                                       now)} :
                        /\ last'.status = absent.status
                        /\ last'.body = absent.body]_vars

\* the path prefixes under /api/v1 that the route table names
RoutedPrefixes ==
    {"/users", "/login", "/logout", "/verify-token", "/keys", "/completions",
     "/embeddings", "/similarity", "/images", "/audio", "/tts", "/analytics", "/stats"}

\* the path matches an entry of the route table
PathRouted(path) ==
    \/ path = <<"/health">>
    \/ (Len(path) >= 2 /\ path[1] = ApiV1[1] /\ path[2] \in RoutedPrefixes)

\* C14: a request whose path matches no entry of the route table is answered
\* 404 with no verification call to the user service and no call to an upstream.
UnroutedIs404 ==
    (Gateway /\ ~ PathRouted(last.req.path)) =>
        /\ last.status = 404
        /\ last.verify = << >>
        /\ last.upstream = << >>

\* an unrouted path was answered 404 although the request came with the token
\* of a stored session
UnroutedWithSessionToken ==
    /\ Gateway
    /\ ~ PathRouted(last.req.path)
    /\ last.status = 404
    /\ \E s \in sessions : last.req.auth = Bearer \o s.token /\ last.at < s.expiresAt

CapTruncatesAndLogs ==
    last.op = "copy" =>
        /\ last.written = Min(last.size, MaxResponseBytes)
        /\ last.size > MaxResponseBytes => last.logged

\* a body one byte over the cap was cut at the cap and the cut was logged
OneByteOverIsCutAndLogged ==
    /\ last.op = "copy"
    /\ last.size = MaxResponseBytes + 1
    /\ last.written = MaxResponseBytes
    /\ last.logged
    /\ last.logged

\* C17: every call the gateway makes to an upstream has the method, the path
\* and the query string of the inbound request, goes to the base URL of the
\* route that matched, and carries every header the inbound request brought,
\* with its value.
HeaderNames == {"apiKey", "auth", "xUserID", "xUsername"}

OutboundMirrorsInbound ==
    Gateway =>
        \A i \in 1..Len(last.upstream) :
            /\ last.upstream[i].req.method = last.req.method
            /\ last.upstream[i].req.path = last.req.path
            /\ last.upstream[i].req.query = last.req.query
            /\ last.upstream[i].target = GatewayRoute(last.req).target
            /\ \A h \in HeaderNames :
                   last.req[h] # NoHeader => last.upstream[i].req[h] = last.req[h]

\* C18: when a request is forwarded on the strength of its API key, the
\* upstream call's X-User-ID and X-Username are the id and the username of the
\* user who owns the key, whatever X-User-ID and X-Username the inbound
\* request brought.
KeyForwardStep ==
    /\ last'.op = "gateway"
    /\ last'.why = "api-key"
    /\ last'.upstream # << >>

IdentityHeadersAreKeyOwners ==
    [][KeyForwardStep =>
          \A k \in apiKeys, u \in users :
              (k.key = last'.req.apiKey /\ u.id = k.userID) =>
                  /\ last'.upstream[1].req.xUserID = Itoa(u.id)
                  /\ last'.upstream[1].req.xUsername = u.username]_vars

\* the gateway's answer, status and body, to the request of this step had the
\* store been db
AnswerFrom(db) ==
    LET other == GatewayServe(db, last'.req, last'.net.v, last'.net.u, last'.net.up, now).seen
    IN <<other.status, other.body>>

\* C19: the gateway's response to a request that presents a session token or an
\* API key whose row is expired (now >= expiresAt) or revoked is, in status and
\* body, the response it gives when the store differs only in not having
\* that row.
NoExistenceOracle ==
    [][(last = Idle /\ last'.op = "gateway") =>
          /\ \A s \in sessions :
                (/\ last'.req.apiKey = NoHeader
                 /\ last'.req.auth = Bearer \o s.token
                 /\ now >= s.expiresAt)
                => <<last'.status, last'.body>> = AnswerFrom([DB EXCEPT !.sessions = @ \ {s}])
          /\ \A k \in apiKeys :
                (last'.req.apiKey = k.key /\ (~ k.isActive \/ now >= k.expiresAt))
                => <<last'.status, last'.body>> = AnswerFrom([DB EXCEPT !.apiKeys = @ \ {k}])]_vars

\* the handler of every request returns, whatever its dependencies do: the
\* exchange ends with a response received or with the connection closed
HandlerReturns == (last.op = "flight") ~> (last.op \in {"answered", "dropped"})

\* C20: every request the gateway has taken in is eventually answered with a
\* response its caller receives, also when the user service or the upstream
\* never answers: the timeouts of the verification call and of the proxy call
\* end it with an error response.
EveryRequestAnswered == (last.op = "flight") ~> (last.op = "answered")

\* C21: once the caller has closed the connection of a request whose
\* verification call or proxy call is in flight, that call is cancelled: it
\* is not waited for any longer, its reply is not taken, and it does not run
\* to its timeout.
CallCancelledOnClose ==
    [][(Closed /\ InCall) =>
          ~ (Second \/ VerifyReply \/ VerifyTimesOut \/ UpstreamReply \/ ProxyTimesOut)]_vars

\* r presents an API key, or a bearer token other than the shared secret
PresentsCredential(r) ==
    \/ r.apiKey # EmptyStr
    \/ /\ HasPrefix(r.auth, Bearer)
       /\ TrimPrefix(r.auth, Bearer) \notin {EmptyStr, secretKey}

\* the verification call c came back saying that the credential is good
Approves(c) ==
    \/ c.to = "validate-key" /\ c.reply = "valid"
    \/ c.to = "verify-token" /\ c.reply = "status" /\ c.status = 200

\* C22: for a request to a protected route that presents an API key or a
\* bearer token other than the shared secret the gateway makes exactly one
\* verification call, and it lets the request through exactly when that call
\* approved the credential, whatever it decided for the credential before.
OneVerificationDecides ==
    (Gateway /\ Protected(last.req) /\ PresentsCredential(last.req)) =>
        /\ Len(last.verify) = 1
        /\ last.why # "rejected" <=> Approves(last.verify[1])

\* a token the gateway had let through is checked again after its logout and
\* turned down on the strength of that one check
RecheckedAfterLogout ==
    /\ Gateway
    /\ Protected(last.req)
    /\ last.req.apiKey = EmptyStr
    /\ TrimPrefix(last.req.auth, Bearer) \in hist.loggedOut
    /\ Len(last.verify) = 1
    /\ last.verify[1].status = 401
    /\ last.why = "rejected"

\* the role ids of the rows of user_roles that belong to userID
RolesOf(table, userID) == {ur.roleID : ur \in {x \in table : x.userID = userID}}

DeleteRoleIsAllOrNothing ==
    [][(last = Idle /\ last'.op = "DeleteRole") =>
          /\ last'.err = "" =>
                /\ last'.id \notin roles'
                /\ \A ur \in userRoles' : ur.roleID # last'.id
          /\ last'.err # "" => roles' = roles /\ userRoles' = userRoles]_vars

\* C25: a lookup of a session token removes the row of that token when and
\* only when the session is expired (now >= expiresAt; "when" as far as the
\* database carries the delete out), and it removes or changes no other row:
\* a lookup of a valid or of an unknown token leaves table sessions as it was.
LazyExpiryTouchesOnlyExpired ==
    [][LookupStep =>
          /\ sessions' \subseteq sessions
          /\ \A s \in sessions \ sessions' : s.token = last'.token /\ now >= s.expiresAt
          /\ \A s \in sessions :
                (s.token = last'.token /\ now >= s.expiresAt /\ last'.deletes)
                => s \notin sessions']_vars

\* the ids of the rows of a table
IDs(table) == {k.id : k \in table}

\* C26: however a ValidateAPIKey of a key, its write of last_used included,
\* interleaves with a RevokeAPIKey or DeleteAPIKey of that key: a row that is
\* revoked stays revoked and a row that is deleted stays deleted, the write of
\* last_used changes nothing but last_used, and a validation that starts when
\* the key is revoked or deleted is rejected.
RevokedStaysRevoked ==
    [][/\ IDs(apiKeys') \subseteq IDs(apiKeys)
       /\ \A k \in apiKeys, k2 \in apiKeys' : (k.id = k2.id /\ ~ k.isActive) => ~ k2.isActive
       /\ (last = Idle /\ last'.op = "ValidateAPIKey" /\ last'.err = "") =>
             /\ IDs(apiKeys') = IDs(apiKeys)
             /\ \A k \in apiKeys, k2 \in apiKeys' :
                   k.id = k2.id => [k2 EXCEPT !.lastUsed = k.lastUsed] = k
       /\ (last = Idle /\ last'.op = "ValidateAPIKey.First") =>
             \E k \in apiKeys : k.key = last'.key /\ k.isActive]_vars

\* the write of last_used of a validation that had read the key before its
\* revocation arrived after it: the row is revoked and carries the new last_used
LastUsedWrittenAfterRevoke ==
    /\ last.op = "ValidateAPIKey"
    /\ last.err = ""
    /\ \E k \in apiKeys : k.id = last.id /\ ~ k.isActive /\ k.lastUsed = last.at

\* C27: an X-User-ID or X-Username that an upstream receives from the gateway
\* was set by the gateway from the successful validation of the API key of
\* that request; a request let through on a session token, on the shared
\* secret or on the allow-list brings the upstream neither header.
IdentityHeadersOnlyFromValidation ==
    Gateway =>
        \A i \in 1..Len(last.upstream) :
            IF last.why = "api-key"
            THEN \E k \in apiKeys, u \in users :
                    /\ k.key = last.req.apiKey
                    /\ u.id = k.userID
                    /\ last.upstream[i].req.xUserID = FormatV(Float64(u.id))
                    /\ last.upstream[i].req.xUsername = u.username
            ELSE /\ last.upstream[i].req.xUserID = NoHeader
                 /\ last.upstream[i].req.xUsername = NoHeader

\* the exchange served by this step, a logout at the user service
LogoutStep ==
    /\ last = Idle
    /\ last'.op = "user-service"
    /\ last'.req.method = "POST"
    /\ last'.req.path = ApiV1 \o <<"/logout">>

\* C28: a logout with token T answers 204 and removes the session of token T
\* and no other row, also when no session has token T, and at every step a
\* session row goes only by a logout with its own token or by the lookup
\* that finds it expired, and no step changes a row that stays.
LogoutRemovesOnlyItsSession ==
    [][/\ LogoutStep =>
             /\ last'.status = 204
             /\ sessions' = {s \in sessions : s.token # ExtractToken(last'.req.auth)}
       /\ \A s \in sessions \ sessions' :
             /\ last'.op \in {"user-service", "gateway"}
             /\ ExtractToken(last'.req.auth) = s.token
             /\ last'.req.path = ApiV1 \o <<"/logout">> \/ Before(s.expiresAt, now)
       /\ \A s \in sessions' \ sessions : \A old \in sessions : old.token # s.token]_vars

\* alice logged in twice and logged out with her first token: the session of
\* her second token is still there
SecondSessionSurvivesLogout ==
    /\ last.op = "user-service"
    /\ last.req.path = ApiV1 \o <<"/logout">>
    /\ last.req.auth = Bearer \o generateToken(1)
    /\ last.status = 204
    /\ generateToken(1) \in hist.loggedOut
    /\ \E s \in sessions : s.token = generateToken(2) /\ s.userID = FirstUserID
    /\ \A u \in users : u.id # FirstUserID => \A s \in sessions : s.userID # u.id
    /\ seq.token = 2

\* C29: however the LogAICall operations and the aggregations they start
\* interleave, table ai_statistics has at most one row per calendar date.
OneStatisticPerDate ==
    \A st \in aiStatistics, other \in aiStatistics : st.date = other.date => st = other

\* C30: when every aggregation that the LogAICall operations of a day started
\* has finished, the day's row of ai_statistics (the one a lookup by date
\* finds) has TotalAPICalls equal to the number of the day's rows of
\* ai_call_logs.
QuiescentTotalsMatchLogs ==
    \A day \in Days :
        (/\ \E l \in aiCallLogs : l.day = day
         /\ \A a \in aggregations : a.date # day)
        => \E st \in aiStatistics :
              /\ st.id = FirstStatistic(aiStatistics, day)
              /\ st.totalAPICalls = Cardinality({l \in aiCallLogs : l.day = day})

====
